---- MODULE Spec2Model ----
(***************************************************************************)
(* InfiniLM-SVC.                                                           *)
(*                                                                         *)
(* Spec, LiveSpec: the Registry (rust/src/bin/registry.rs): the service    *)
(* directory, its HTTP handlers, the background health prober and the      *)
(* reaper of stale services.                                               *)
(*                                                                         *)
(* RouterSpec: the Router's pool of service instances and its registry     *)
(* sync task (rust/src/router/load_balancer.rs).                           *)
(*                                                                         *)
(* The two are separate processes; each specification moves the variables  *)
(* of one of them and leaves the other's as Init sets them.                *)
(***************************************************************************)
EXTENDS Integers, Sequences, FiniteSets, TLC

VARIABLES
    now,        \* SystemTime::now() in whole seconds (as_secs)
    services,   \* RegistryState.services: name -> ServiceInfo
    reaper,     \* cleanup_stale_services: position and stale_services
    prober,     \* perform_health_checks: position and the cloned snapshot still to probe
    hb,         \* a heartbeat_handler call in flight
    sh,         \* a service_health_handler call in flight
    resp,       \* status line of the response a writing handler sent in the step
                \* just taken (NoResp otherwise)
    pool,       \* LoadBalancer.services: name -> ServiceInstance
    registry,   \* what GET /services?healthy=true of the Registry answers now
    pulls,      \* responses of the sync tasks in flight, in the order of their rounds
    syncDue,    \* the sync loop is about to spawn a task (its sleep has ended)
    synclog,    \* outcome of the sync task that finished in the step just taken
    listed,     \* history: name -> time of the last applied pull that listed the name
    order,      \* the order in which the pool's map iterates over its names
    current_index,  \* LoadBalancer.current_index, the round-robin counter
    req,        \* the proxy request in flight: position in proxy_handler and locals
    hc,         \* instances the running health-check round has still to probe
    healthDue,  \* the health-check loop is about to spawn a round (its sleep has ended)
    callers,    \* calls of get_next_healthy_service_by_model in flight: position, locals
    took,       \* history: the counter values the selections took, with their choices
    chosen,     \* history: the session-affine selections made, with their choices
    babysitter, \* BabysitterState and the position of ProcessManager::run
    client,     \* the Babysitter's main and BabysitterRegistryClient tasks
    waiting     \* the calls queued for the directory's guard, oldest first

registryVars == <<services, reaper, prober, hb, sh, resp, waiting>>

routerVars == <<pool, registry, pulls, syncDue, synclog, listed>>

proxyVars == <<order, current_index, req, hc, healthDue, callers, took, chosen>>

babysitterVars == <<babysitter, client>>

vars == <<now, registryVars, routerVars, proxyVars, babysitterVars>>

----------------------------------------------------------------------------
(* Bounds of the model *)

\* number of clock advances explored
MaxTicks == 6

\* clock advances between the clock read and the store of the heartbeat call
\* that is followed through its suspension points
MaxGapTicks == 1

\* number of rounds of the Router's sync loop explored
MaxSyncTicks == 8

\* sync tasks that hold a fetched response and wait for the write guard
MaxInflight == 1

(* Program constants *)

\* is_healthy: "(now - last_heartbeat) < 120.0"
STALE_THRESHOLD == 120

\* cleanup_stale_services: "(now - last_heartbeat) > 300.0"
EVICT_THRESHOLD == 300

\* Args.cleanup_interval default; the clock of the model advances in these steps
cleanup_interval == 60

\* Args.registry_sync_interval default (Router)
registry_sync_interval == 10

\* Args.service_removal_grace_period default (Router)
service_removal_grace_period == 60

\* proxy_handler: max_retries
max_retries == 3

\* DEFAULT_CACHE_TYPE_ROUTING_THRESHOLD
CACHE_TYPE_ROUTING_THRESHOLD == 51200

Names == {"svc-a"}

Url(host, port) == <<host, port>>

\* RegisterServiceRequest bodies that clients send
RegisterBodies ==
    { [host |-> "h1", port |-> 9000, hostname |-> "h1", url |-> Url("h1", 9000),
       status |-> "running", metadata |-> [type |-> "openai-api"]],
      [host |-> "h2", port |-> 9001, hostname |-> "n2", url |-> Url("h2", 9001),
       status |-> "stopped", metadata |-> [type |-> "babysitter"]] }

\* UpdateServiceRequest bodies: a key is present iff the Option is Some
UpdatePayloads ==
    { [status |-> "running"],
      [host |-> "h2", port |-> 9001, hostname |-> "n2", url |-> Url("h2", 9001),
       metadata |-> [type |-> "babysitter"]],
      << >> }

\* the optional "status" of a heartbeat body
NoStatus == "<none>"

HeartbeatStatuses == {NoStatus, "stopped"}

NoResp == [op |-> "none"]

IdleCall == [pc |-> "idle", name |-> "", now |-> 0, status |-> NoStatus]

----------------------------------------------------------------------------
(* ServiceInfo *)

MetaType(metadata) ==
    IF "type" \in DOMAIN metadata THEN metadata["type"] ELSE "<none>"

\* ServiceInfo::new with the host stored as the hostname too
NewServiceInfo_hostname(name, body, t) ==
    [ name |-> name,
      host |-> body.host,
      port |-> body.port,
      hostname |-> body.host,
      url |-> body.url,
      status |-> body.status,
      timestamp |-> t,
      last_heartbeat |-> t,
      health_status |-> "unknown",
      metadata |-> body.metadata ]

\* ServiceInfo::new
NewServiceInfo(name, body, t) ==
    [ name |-> name,
      host |-> body.host,
      port |-> body.port,
      hostname |-> body.hostname,
      url |-> body.url,
      status |-> body.status,
      timestamp |-> t,
      last_heartbeat |-> t,
      health_status |-> "unknown",
      metadata |-> body.metadata ]

\* ServiceInfo::is_healthy with the threshold included
is_healthy_inclusive(service, t) ==
    IF service.status # "running"
    THEN FALSE
    ELSE (t - service.last_heartbeat) <= STALE_THRESHOLD

\* ServiceInfo::is_healthy
is_healthy(service, t) ==
    IF service.status # "running"
    THEN FALSE
    ELSE (t - service.last_heartbeat) < STALE_THRESHOLD

\* ServiceInfo::to_dict
to_dict(service, t) ==
    [ name |-> service.name,
      host |-> service.host,
      port |-> service.port,
      hostname |-> service.hostname,
      url |-> service.url,
      status |-> service.status,
      timestamp |-> service.timestamp,
      last_heartbeat |-> service.last_heartbeat,
      health_status |-> service.health_status,
      is_healthy |-> is_healthy(service, t),
      metadata |-> service.metadata ]

\* a probe that always goes to the record's own url
check_url_own(service) == service.url

\* the probe URL of a record (without the "/health" suffix)
check_url(service) ==
    IF MetaType(service.metadata) = "openai-api"
    THEN Url(service.host, service.port + 1)
    ELSE service.url

----------------------------------------------------------------------------
(* The directory and its guard *)

Present(n) == n \in DOMAIN services

Insert(map, n, r) ==
    [m \in DOMAIN map \cup {n} |-> IF m = n THEN r ELSE map[m]]

RemoveAll(map, S) == [m \in DOMAIN map \ S |-> map[m]]

\* tasks holding state.services.read() across a suspension point
ReadHeld == hb.pc = "write" \/ sh.pc = "probe"

\* state.services.write() can be acquired
WriteFree == ~ReadHeld

\* the guard queues its waiters and serves them in the order of their
\* requests: a call gets the guard when nobody waits or when it waits first
Turn(call) == IF waiting = << >> THEN TRUE ELSE Head(waiting) = call

\* the queue once the call has the guard
Leave(call) == IF waiting = << >> THEN waiting ELSE Tail(waiting)

\* the clones held by the prober share the Arc cells of the record they were
\* cloned from; once the directory drops that record (insert over it, remove)
\* writes through the clone no longer reach the directory
Detach(snapshot, S) ==
    { IF e.name \in S THEN [e EXCEPT !.attached = FALSE] ELSE e : e \in snapshot }

----------------------------------------------------------------------------
(* Router: ServiceInstance and the pool *)

MetaModels(metadata) ==
    IF "models" \in DOMAIN metadata THEN metadata["models"] ELSE << >>

\* metadata.get("static").and_then(|v| v.as_bool()).unwrap_or(false)
MetaStatic(metadata) ==
    IF "static" \in DOMAIN metadata THEN metadata["static"] = TRUE ELSE FALSE

\* ServiceInstance::new
NewServiceInstance(name, host, port, weight, metadata, t) ==
    [ name |-> name,
      host |-> host,
      port |-> port,
      url |-> Url(host, port),
      babysitter_url |-> Url(host, port + 1),
      healthy |-> TRUE,
      models |-> MetaModels(metadata),
      metadata |-> metadata,
      request_count |-> 0,
      error_count |-> 0,
      weight |-> weight,
      last_seen |-> t,
      last_check |-> 0 ]

\* Config.static_services
StaticServices ==
    { [name |-> "static-1", host |-> "h9", port |-> 7000, weight |-> 2,
       metadata |-> [static |-> TRUE, models |-> <<"m1">>]] }

\* records the Registry may list (RegistryService)
RecW1 ==
    [name |-> "w1", host |-> "h1", port |-> 9000, url |-> Url("h1", 9000),
     is_healthy |-> TRUE, weight |-> 1,
     metadata |-> [type |-> "openai-api", models |-> <<"m1">>]]

RecW1Moved ==
    [name |-> "w1", host |-> "h2", port |-> 9002, url |-> Url("h2", 9002),
     is_healthy |-> TRUE, weight |-> 1,
     metadata |-> [type |-> "openai-api", models |-> <<"m1", "m2">>]]

RecW1Babysitter ==
    [name |-> "w1", host |-> "h1", port |-> 9001, url |-> Url("h1", 9001),
     is_healthy |-> TRUE, weight |-> 1,
     metadata |-> [type |-> "babysitter"]]

RecStatic ==
    [name |-> "static-1", host |-> "h9", port |-> 7000, url |-> Url("h9", 7000),
     is_healthy |-> TRUE, weight |-> 1,
     metadata |-> [type |-> "openai-api", models |-> <<"m2">>]]

\* the answers of the Registry over time
RegistryContents ==
    { {}, {RecW1}, {RecW1Moved}, {RecW1Babysitter}, {RecW1, RecStatic} }

NoSync == [result |-> "none"]

\* LoadBalancer::new
RouterInit ==
    /\ pool = [n \in {c.name : c \in StaticServices} |->
                 LET c == CHOOSE c \in StaticServices : c.name = n IN
                 NewServiceInstance(c.name, c.host, c.port, c.weight, c.metadata, 0)]
    /\ registry = {}
    /\ pulls = << >>
    /\ syncDue = TRUE
    /\ synclog = NoSync
    /\ listed = [n \in {c.name : c \in StaticServices} |-> 0]

\* an Option: None, Some(x)
None == << >>

Some(x) == <<x>>

NoService == "<none>"

\* no request in flight
IdleReq == [pc |-> "idle"]

\* BabysitterState as main builds it (main has not run yet): no child, no
\* port, no restart; starts counts the calls of start_service, spawns the
\* children spawned; children is what the operating system knows of every
\* child spawned so far, process the one child the state holds
NewBabysitterState ==
    [pc |-> "main", max_restarts |-> 0, process |-> None, service_port |-> None,
     restart_count |-> 0, starts |-> 0, spawns |-> 0, detections |-> 0,
     elapsed |-> 0, wait_interval |-> 0, children |-> << >>]

\* the Babysitter's tasks before main has spawned them, and what they talk
\* to: the Registry is reachable or not, the worker answers /v1/models with a
\* list of model ids
NewClient ==
    [main |-> "running", run |-> "off", managed |-> "off", server |-> "off",
     up |-> FALSE, worker_models |-> << >>, config_metadata |-> << >>,
     port |-> None, models |-> << >>, registered |-> FALSE,
     posted |-> [op |-> "none"]]

\* the requests that may be selecting an instance at the same time
Callers == {"r1", "r2"}

IdleCaller == [pc |-> "idle"]

\* the Router has served nothing yet; its timers are due
ProxyVarsInit ==
    /\ current_index = 0
    /\ req = IdleReq
    /\ hc = {}
    /\ healthDue = TRUE
    /\ callers = [c \in Callers |-> IdleCaller]
    /\ took = << >>
    /\ chosen = << >>
    /\ babysitter = NewBabysitterState
    /\ client = NewClient

Init ==
    /\ now = 0
    /\ services = << >>
    /\ reaper = [pc |-> "sleep", stale |-> {}]
    /\ prober = [pc |-> "sleep", snapshot |-> {}]
    /\ hb = IdleCall
    /\ sh = IdleCall
    /\ resp = NoResp
    /\ waiting = << >>
    /\ RouterInit
    /\ order = <<"static-1", "w1">>
    /\ ProxyVarsInit

\* wall-clock time passes
Tick ==
    /\ now < MaxTicks * cleanup_interval
    /\ hb.pc = "write" => now - hb.now < MaxGapTicks * cleanup_interval
    /\ now' = now + cleanup_interval
    /\ resp' = NoResp
    /\ UNCHANGED <<services, reaper, prober, hb, sh, waiting, routerVars, proxyVars, babysitterVars>>

----------------------------------------------------------------------------
(* HTTP handlers that run under one guard acquisition *)

\* POST /services
register_service_handler(n, body) ==
    LET service_info == NewServiceInfo(n, body, now) IN
    /\ WriteFree
    /\ Turn([op |-> "register", name |-> n, body |-> body])
    /\ waiting' = Leave([op |-> "register", name |-> n, body |-> body])
    /\ services' = Insert(services, n, service_info)
    /\ prober' = [prober EXCEPT !.snapshot = Detach(@, {n})]
    /\ resp' = [op |-> "register", name |-> n, code |-> 201]
    /\ UNCHANGED <<now, reaper, hb, sh, routerVars, proxyVars, babysitterVars>>

\* the "if let Some(x) = payload.x" assignments of update_service_handler
ApplyUpdate(service, p) ==
    [service EXCEPT
        !.host = IF "host" \in DOMAIN p THEN p.host ELSE @,
        !.port = IF "port" \in DOMAIN p THEN p.port ELSE @,
        !.hostname = IF "hostname" \in DOMAIN p THEN p.hostname ELSE @,
        !.url = IF "url" \in DOMAIN p THEN p.url ELSE @,
        !.status = IF "status" \in DOMAIN p THEN p.status ELSE @,
        !.metadata = IF "metadata" \in DOMAIN p THEN p.metadata ELSE @]

\* ServiceInfo::update_heartbeat that also restamps the record
update_heartbeat_restamp(service, t) ==
    [service EXCEPT !.last_heartbeat = t, !.timestamp = t]

\* ServiceInfo::update_heartbeat: the value it stores is the clock it read
update_heartbeat(service, t) == [service EXCEPT !.last_heartbeat = t]

\* PUT /services/:name
update_service_handler(n, p) ==
    /\ WriteFree
    /\ Turn([op |-> "update", name |-> n, payload |-> p])
    /\ waiting' = Leave([op |-> "update", name |-> n, payload |-> p])
    /\ IF ~Present(n)
       THEN /\ resp' = [op |-> "update", name |-> n, code |-> 404]
            /\ UNCHANGED services
       ELSE LET service == update_heartbeat(ApplyUpdate(services[n], p), now) IN
            /\ services' = [services EXCEPT ![n] = service]
            /\ resp' = [op |-> "update", name |-> n, code |-> 200]
    /\ UNCHANGED <<now, reaper, prober, hb, sh, routerVars, proxyVars, babysitterVars>>

\* DELETE /services/:name answering 200 whether or not the name was there
unregister_service_handler_idempotent(n) ==
    /\ WriteFree
    /\ Turn([op |-> "unregister", name |-> n])
    /\ waiting' = Leave([op |-> "unregister", name |-> n])
    /\ services' = RemoveAll(services, {n})
    /\ prober' = [prober EXCEPT !.snapshot = Detach(@, {n})]
    /\ resp' = [op |-> "unregister", name |-> n, code |-> 200]
    /\ UNCHANGED <<now, reaper, hb, sh, routerVars, proxyVars, babysitterVars>>

\* DELETE /services/:name
unregister_service_handler(n) ==
    /\ WriteFree
    /\ Turn([op |-> "unregister", name |-> n])
    /\ waiting' = Leave([op |-> "unregister", name |-> n])
    /\ IF Present(n)
       THEN /\ services' = RemoveAll(services, {n})
            /\ prober' = [prober EXCEPT !.snapshot = Detach(@, {n})]
            /\ resp' = [op |-> "unregister", name |-> n, code |-> 200]
       ELSE /\ resp' = [op |-> "unregister", name |-> n, code |-> 404]
            /\ UNCHANGED <<services, prober>>
    /\ UNCHANGED <<now, reaper, hb, sh, routerVars, proxyVars, babysitterVars>>

\* GET /services/:name: the response, status code and body
get_service_response(n) ==
    IF Present(n)
    THEN [code |-> 200, service |-> to_dict(services[n], now)]
    ELSE [code |-> 404]

\* a read changes nothing
get_service_handler(n) ==
    /\ get_service_response(n).code \in {200, 404}
    /\ resp' = NoResp
    /\ UNCHANGED <<now, services, reaper, prober, hb, sh, waiting, routerVars, proxyVars, babysitterVars>>

\* an absent query parameter
NoFilter == "<absent>"

\* the (status, healthy) query parameters that clients send
ListQueries ==
    { <<NoFilter, NoFilter>>, <<"running", NoFilter>>, <<"running", "true">>,
      <<NoFilter, "TRUE">>, <<NoFilter, "false">>, <<"stopped", "false">> }

\* str::to_lowercase on the values of the healthy parameter
to_lowercase(s) == IF s = "TRUE" THEN "true" ELSE s

\* the two retain() filters of services_handler
FilterServices(list, status_filter, healthy_filter) ==
    LET byStatus == IF status_filter = NoFilter THEN list
                    ELSE {d \in list : d.status = status_filter}
        healthy_only == to_lowercase(healthy_filter) = "true"
    IN  IF healthy_filter = NoFilter THEN byStatus
        ELSE {d \in byStatus : d.is_healthy = healthy_only}

\* GET /services: the "services" of the response
services_response(status_filter, healthy_filter) ==
    LET services_list == {to_dict(services[n], now) : n \in DOMAIN services} IN
    FilterServices(services_list, status_filter, healthy_filter)

services_handler(status_filter, healthy_filter) ==
    /\ Cardinality(services_response(status_filter, healthy_filter))
          <= Cardinality(DOMAIN services)
    /\ resp' = NoResp
    /\ UNCHANGED <<now, services, reaper, prober, hb, sh, waiting, routerVars, proxyVars, babysitterVars>>

----------------------------------------------------------------------------
(* POST /services/:name/heartbeat: heartbeat_handler *)

\* services.read(), get(&name), and the clock read of update_heartbeat
HeartbeatBegin(n, status) ==
    /\ hb.pc = "idle"
    /\ Turn([op |-> "heartbeat", name |-> n, status |-> status])
    /\ waiting' = Leave([op |-> "heartbeat", name |-> n, status |-> status])
    /\ IF ~Present(n)
       THEN /\ resp' = [op |-> "heartbeat", name |-> n, code |-> 404]
            /\ UNCHANGED hb
       ELSE /\ hb' = [pc |-> "write", name |-> n, now |-> now, status |-> status]
            /\ resp' = NoResp
    /\ UNCHANGED <<now, services, reaper, prober, sh, routerVars, proxyVars, babysitterVars>>

\* "*self.last_heartbeat.write().await = now", then either the response or
\* drop(services) before the write guard is requested
HeartbeatWrite ==
    /\ hb.pc = "write"
    /\ services' = [services EXCEPT ![hb.name] = update_heartbeat(@, hb.now)]
    /\ IF hb.status = NoStatus
       THEN /\ hb' = IdleCall
            /\ resp' = [op |-> "heartbeat", name |-> hb.name, code |-> 200]
       ELSE /\ hb' = [hb EXCEPT !.pc = "status"]
            /\ resp' = NoResp
    /\ UNCHANGED <<now, reaper, prober, sh, waiting, routerVars, proxyVars, babysitterVars>>

\* services.write(), "if let Some(service) = services.get_mut(&name)"
HeartbeatStatus ==
    /\ hb.pc = "status"
    /\ WriteFree
    /\ services' = IF Present(hb.name)
                   THEN [services EXCEPT ![hb.name].status = hb.status]
                   ELSE services
    /\ hb' = IdleCall
    /\ resp' = [op |-> "heartbeat", name |-> hb.name, code |-> 200]
    /\ UNCHANGED <<now, reaper, prober, sh, waiting, routerVars, proxyVars, babysitterVars>>

----------------------------------------------------------------------------
(* GET /services/:name/health: service_health_handler *)

ProbeOutcomes == {"2xx", "non2xx", "error"}

\* check_service_health: the health status a probe outcome maps to
check_service_health(outcome) ==
    IF outcome = "2xx" THEN "healthy" ELSE "unhealthy"

\* services.read(), get(&name), the request to check_url is sent
ServiceHealthBegin(n) ==
    /\ sh.pc = "idle"
    /\ Turn([op |-> "health", name |-> n])
    /\ waiting' = Leave([op |-> "health", name |-> n])
    /\ IF ~Present(n)
       THEN /\ resp' = [op |-> "health", name |-> n, code |-> 404]
            /\ UNCHANGED sh
       ELSE /\ sh' = [IdleCall EXCEPT !.pc = "probe", !.name = n]
            /\ resp' = NoResp
    /\ UNCHANGED <<now, services, reaper, prober, hb, routerVars, proxyVars, babysitterVars>>

\* the rest of the handler once the probe has returned: health_status is
\* stored, on "healthy" update_heartbeat runs, the response is built
ServiceHealthApply(service, health_status, t) ==
    LET checked == [service EXCEPT !.health_status = health_status] IN
    IF health_status = "healthy" THEN update_heartbeat(checked, t) ELSE checked

ServiceHealthProbe(outcome) ==
    LET health_status == check_service_health(outcome)
        service == ServiceHealthApply(services[sh.name], health_status, now)
    IN  /\ sh.pc = "probe"
        /\ services' = [services EXCEPT ![sh.name] = service]
        /\ sh' = IdleCall
        /\ resp' = [op |-> "health", name |-> sh.name, code |-> 200,
                    url |-> check_url(services[sh.name]),
                    health_status |-> health_status]
        /\ UNCHANGED <<now, reaper, prober, hb, waiting, routerVars, proxyVars, babysitterVars>>

----------------------------------------------------------------------------
(* perform_health_checks: the background prober *)

\* the timer fires; the records are cloned under the read guard
ProberSnapshot ==
    /\ prober.pc = "sleep"
    /\ LET snapshot == {[name |-> n, attached |-> TRUE] : n \in DOMAIN services}
       IN prober' = IF snapshot = {}
                    THEN prober
                    ELSE [pc |-> "probing", snapshot |-> snapshot]
    /\ resp' = NoResp
    /\ UNCHANGED <<now, services, reaper, hb, sh, waiting, routerVars, proxyVars, babysitterVars>>

\* an iteration that drops the record whose probe failed
ProberProbe_evict(e, outcome) ==
    LET health_status == check_service_health(outcome)
        rest == prober.snapshot \ {e}
    IN  /\ prober.pc = "probing"
        /\ e \in prober.snapshot
        /\ services' = IF e.attached
                       THEN IF health_status = "healthy"
                            THEN [services EXCEPT ![e.name].health_status = health_status]
                            ELSE RemoveAll(services, {e.name})
                       ELSE services
        /\ prober' = IF rest = {}
                     THEN [pc |-> "sleep", snapshot |-> {}]
                     ELSE [prober EXCEPT !.snapshot = rest]
        /\ resp' = NoResp
        /\ UNCHANGED <<now, reaper, hb, sh, waiting, routerVars, proxyVars, babysitterVars>>

\* one iteration of "for service in &services": probe, store health_status
ProberProbe(e, outcome) ==
    LET health_status == check_service_health(outcome)
        rest == prober.snapshot \ {e}
    IN  /\ prober.pc = "probing"
        /\ e \in prober.snapshot
        /\ services' = IF e.attached
                       THEN [services EXCEPT ![e.name].health_status = health_status]
                       ELSE services
        /\ prober' = IF rest = {}
                     THEN [pc |-> "sleep", snapshot |-> {}]
                     ELSE [prober EXCEPT !.snapshot = rest]
        /\ resp' = NoResp
        /\ UNCHANGED <<now, reaper, hb, sh, waiting, routerVars, proxyVars, babysitterVars>>

----------------------------------------------------------------------------
(* cleanup_stale_services: the reaper *)

\* the scan with the operands of the subtraction exchanged
StaleServices_swapped(map, t) ==
    {n \in DOMAIN map : (map[n].last_heartbeat - t) > EVICT_THRESHOLD}

\* the names the scan under the read guard collects
StaleServices(map, t) ==
    {n \in DOMAIN map : (t - map[n].last_heartbeat) > EVICT_THRESHOLD}

\* the timer fires: the clock is read, the names are collected, the read guard is
\* released
ReaperScan ==
    /\ reaper.pc = "sleep"
    /\ LET stale_services == StaleServices(services, now) IN
       reaper' = IF stale_services = {}
                 THEN reaper
                 ELSE [pc |-> "remove", stale |-> stale_services]
    /\ resp' = NoResp
    /\ UNCHANGED <<now, services, prober, hb, sh, waiting, routerVars, proxyVars, babysitterVars>>

\* the write guard is taken and every collected name is removed
ReaperRemove ==
    /\ reaper.pc = "remove"
    /\ WriteFree
    /\ services' = RemoveAll(services, reaper.stale)
    /\ prober' = [prober EXCEPT !.snapshot = Detach(@, reaper.stale)]
    /\ reaper' = [pc |-> "sleep", stale |-> {}]
    /\ resp' = NoResp
    /\ UNCHANGED <<now, hb, sh, waiting, routerVars, proxyVars, babysitterVars>>

----------------------------------------------------------------------------
Next ==
    \/ Tick
    \/ \E n \in Names, body \in RegisterBodies : register_service_handler(n, body)
    \/ \E n \in Names, p \in UpdatePayloads : update_service_handler(n, p)
    \/ \E n \in Names : unregister_service_handler(n)
    \/ \E n \in Names : get_service_handler(n)
    \/ \E q \in ListQueries : services_handler(q[1], q[2])
    \/ \E n \in Names, s \in HeartbeatStatuses : HeartbeatBegin(n, s)
    \/ HeartbeatWrite
    \/ HeartbeatStatus
    \/ \E n \in Names : ServiceHealthBegin(n)
    \/ \E o \in ProbeOutcomes : ServiceHealthProbe(o)
    \/ ProberSnapshot
    \/ \E e \in prober.snapshot, o \in ProbeOutcomes : ProberProbe(e, o)
    \/ ReaperScan
    \/ ReaperRemove

Spec == Init /\ [][Next]_vars

\* The timers fire and time passes; a call in flight returns (the lock is granted,
\* the probe answers or times out); tokio's RwLock queues fairly, so the reaper's
\* write() is granted although readers keep arriving.
LiveSpec ==
    /\ Spec
    /\ WF_vars(Tick)
    /\ WF_vars(ReaperScan)
    /\ SF_vars(ReaperRemove)
    /\ WF_vars(HeartbeatWrite)
    /\ WF_vars(\E o \in ProbeOutcomes : ServiceHealthProbe(o))

----------------------------------------------------------------------------
(* The Registry's handlers in the queue of the directory's guard *)

\* calls that wait for the guard at the same time
MaxWaiting == 2

\* the calls clients send while a probe on demand is followed
GuardCalls ==
    {[op |-> "register", name |-> n, body |-> body] : n \in Names, body \in RegisterBodies}
    \cup {[op |-> "unregister", name |-> n] : n \in Names}
    \cup {[op |-> "heartbeat", name |-> n, status |-> NoStatus] : n \in Names}
    \cup {[op |-> "health", name |-> n] : n \in Names}

\* the handlers that ask for state.services.write()
IsWrite(call) == call.op \in {"register", "update", "unregister"}

\* write() waits for the readers that hold the guard and for every waiter
\* before it; read() waits as soon as a writer waits before it
MustWait(call) ==
    IF IsWrite(call)
    THEN ReadHeld \/ waiting # << >>
    ELSE \E i \in DOMAIN waiting : IsWrite(waiting[i])

\* a call reaches its read().await or write().await and is suspended
Arrive(call) ==
    /\ Len(waiting) < MaxWaiting
    /\ MustWait(call)
    /\ waiting' = Append(waiting, call)
    /\ resp' = NoResp
    /\ UNCHANGED <<now, services, reaper, prober, hb, sh, routerVars, proxyVars,
                   babysitterVars>>

GuardNext ==
    \/ \E call \in GuardCalls : Arrive(call)
    \/ \E n \in Names, body \in RegisterBodies : register_service_handler(n, body)
    \/ \E n \in Names : unregister_service_handler(n)
    \/ \E n \in Names : HeartbeatBegin(n, NoStatus)
    \/ HeartbeatWrite
    \/ \E n \in Names : ServiceHealthBegin(n)
    \/ \E o \in ProbeOutcomes : ServiceHealthProbe(o)

GuardSpec == Init /\ [][GuardNext]_vars

----------------------------------------------------------------------------
(* Router: registry sync (LoadBalancer::start_registry_sync) *)

\* registry_service_names: every pulled name, whatever the record's type
RegistryNames(response) == {r.name : r \in response}

\* the loop without its test of metadata.type
OpenAiRecords_all(response) == response

\* the records the loop does not skip
OpenAiRecords(response) == {r \in response : MetaType(r.metadata) = "openai-api"}

\* "Update existing service" that also takes the record's weight and clears
\* the error count
UpdateExisting_reset(inst, r, t) ==
    [inst EXCEPT !.host = r.host,
                 !.port = r.port,
                 !.url = r.url,
                 !.healthy = r.is_healthy,
                 !.metadata = r.metadata,
                 !.last_seen = t,
                 !.models = MetaModels(r.metadata),
                 !.babysitter_url = Url(r.host, r.port + 1),
                 !.weight = r.weight,
                 !.error_count = 0]

\* "Update existing service"
UpdateExisting(inst, r, t) ==
    [inst EXCEPT !.host = r.host,
                 !.port = r.port,
                 !.url = r.url,
                 !.healthy = r.is_healthy,
                 !.metadata = r.metadata,
                 !.last_seen = t,
                 !.models = MetaModels(r.metadata),
                 !.babysitter_url = Url(r.host, r.port + 1)]

\* "Add new service from registry"
AddFromRegistry(r, t) ==
    [NewServiceInstance(r.name, r.host, r.port, r.weight, r.metadata, t)
        EXCEPT !.models = MetaModels(r.metadata),
               !.healthy = r.is_healthy,
               !.last_seen = t]

\* the pool after the update-or-add loop
Upserted(map, response, t) ==
    LET recs == OpenAiRecords(response) IN
    [n \in DOMAIN map \cup RegistryNames(recs) |->
        IF n \in RegistryNames(recs)
        THEN LET r == CHOOSE r \in recs : r.name = n IN
             IF n \in DOMAIN map THEN UpdateExisting(map[n], r, t)
                                 ELSE AddFromRegistry(r, t)
        ELSE map[n]]

\* services_to_remove with the grace period itself still tolerated
ServicesToRemove_strict(map, response, t) ==
    {n \in DOMAIN map :
        /\ n \notin RegistryNames(response)
        /\ ~MetaStatic(map[n].metadata)
        /\ t - map[n].last_seen > service_removal_grace_period}

\* services_to_remove without the test that the pull does not name the instance
ServicesToRemove_listed(map, response, t) ==
    {n \in DOMAIN map :
        /\ ~MetaStatic(map[n].metadata)
        /\ t - map[n].last_seen >= service_removal_grace_period}

\* services_to_remove
ServicesToRemove(map, response, t) ==
    {n \in DOMAIN map :
        /\ n \notin RegistryNames(response)
        /\ ~MetaStatic(map[n].metadata)
        /\ t - map[n].last_seen >= service_removal_grace_period}

\* the sync loop wakes up: one more round, interval seconds after the last
RouterTick ==
    /\ ~syncDue
    /\ now < MaxSyncTicks * registry_sync_interval
    /\ now' = now + registry_sync_interval
    /\ syncDue' = TRUE
    /\ synclog' = NoSync
    /\ UNCHANGED <<pool, registry, pulls, listed, registryVars, proxyVars, babysitterVars>>

\* the Registry's directory changes (registrations, removals, health flips)
RegistryChange(c) ==
    /\ c # registry
    /\ registry' = c
    /\ synclog' = NoSync
    /\ UNCHANGED <<now, pool, pulls, syncDue, listed, registryVars, proxyVars, babysitterVars>>

\* the loop spawns the round's task and goes to sleep without awaiting it; the
\* task's fetch_services(true) answers or fails
SyncFetch(ok) ==
    /\ syncDue
    /\ syncDue' = FALSE
    /\ IF ok
       THEN /\ Len(pulls) < MaxInflight
            /\ pulls' = Append(pulls, registry)
            /\ synclog' = NoSync
       ELSE /\ synclog' = [result |-> "err"]
            /\ UNCHANGED pulls
    /\ UNCHANGED <<now, pool, registry, listed, registryVars, proxyVars, babysitterVars>>

\* the sequence without its i-th element
RemoveAt(seq, i) == SubSeq(seq, 1, i - 1) \o SubSeq(seq, i + 1, Len(seq))

\* the task of the i-th round in flight gets the write guard: the Ok arm
SyncApply(i) ==
    LET response == pulls[i]
        upserted == Upserted(pool, response, now)
        removed == ServicesToRemove(upserted, response, now)
        names == RegistryNames(response)
    IN
    /\ pool' = [n \in DOMAIN upserted \ removed |-> upserted[n]]
    /\ pulls' = RemoveAt(pulls, i)
    /\ synclog' = [result |-> "ok", names |-> names, removed |-> removed]
    /\ listed' = [n \in DOMAIN upserted \ removed |->
                    IF n \in names \/ n \notin DOMAIN listed THEN now ELSE listed[n]]
    /\ UNCHANGED <<now, registry, syncDue, registryVars, proxyVars, babysitterVars>>

RouterNext ==
    \/ RouterTick
    \/ \E c \in RegistryContents : RegistryChange(c)
    \/ \E ok \in BOOLEAN : SyncFetch(ok)
    \/ \E i \in DOMAIN pulls : SyncApply(i)

RouterSpec == Init /\ [][RouterNext]_vars

\* w1 after PUT /services/w1 {"port": 9002}: the Registry's update replaces the
\* fields the payload carries and keeps the url the record was registered with
RecW1Reported ==
    [name |-> "w1", host |-> "h1", port |-> 9002, url |-> Url("h1", 9000),
     is_healthy |-> TRUE, weight |-> 1,
     metadata |-> [type |-> "openai-api", models |-> <<"m1">>]]

\* the answers of a Registry whose record of w1 is updated field by field
ReportedContents == { {}, {RecW1}, {RecW1Reported} }

ReportedNext ==
    \/ RouterTick
    \/ \E c \in ReportedContents : RegistryChange(c)
    \/ \E ok \in BOOLEAN : SyncFetch(ok)
    \/ \E i \in DOMAIN pulls : SyncApply(i)

ReportedSpec == Init /\ [][ReportedNext]_vars

----------------------------------------------------------------------------
(* Router: selection (LoadBalancer) *)

Contains(seq, x) == \E i \in DOMAIN seq : seq[i] = x

\* the healthy instances without the filter by model
HealthyServices_anymodel(map, model_id) ==
    SelectSeq(order, LAMBDA n : n \in DOMAIN map /\ map[n].healthy)

\* services.values() filtered by is_healthy() and, if a model is named, by the
\* instance's models, in the map's iteration order
HealthyServices(map, model_id) ==
    SelectSeq(order, LAMBDA n :
        /\ n \in DOMAIN map
        /\ map[n].healthy
        /\ (model_id # None => Contains(map[n].models, model_id[1])))

RECURSIVE TotalWeight(_, _)
\* healthy_services.iter().map(|s| s.weight).sum()
TotalWeight(map, cands) ==
    IF cands = << >> THEN 0
    ELSE map[Head(cands)].weight + TotalWeight(map, Tail(cands))

\* the weighted choice with the running sum compared by >= instead of >
WeightedPick_inclusive(map, cands, i) ==
    LET total_weight == TotalWeight(map, cands) IN
    IF total_weight = 0
    THEN cands[(i % Len(cands)) + 1]
    ELSE LET target_weight == i % total_weight
             k == CHOOSE k \in 1..Len(cands) :
                    /\ TotalWeight(map, SubSeq(cands, 1, k)) >= target_weight
                    /\ \A j \in 1..(k - 1) :
                          TotalWeight(map, SubSeq(cands, 1, j)) < target_weight
         IN cands[k]

\* the weighted choice for counter value i among a non-empty candidate list
WeightedPick(map, cands, i) ==
    LET total_weight == TotalWeight(map, cands) IN
    IF total_weight = 0
    THEN cands[(i % Len(cands)) + 1]
    ELSE LET target_weight == i % total_weight
             k == CHOOSE k \in 1..Len(cands) :
                    /\ TotalWeight(map, SubSeq(cands, 1, k)) > target_weight
                    /\ \A j \in 1..(k - 1) :
                          TotalWeight(map, SubSeq(cands, 1, j)) <= target_weight
         IN cands[k]

\* get_next_healthy_service_by_model: the instance it returns, if any
get_next_healthy_service_by_model(map, model_id, i) ==
    LET healthy_services == HealthyServices(map, model_id) IN
    IF healthy_services = << >> THEN None
    ELSE Some(WeightedPick(map, healthy_services, i))

MetaCacheType(metadata) ==
    IF "cache_type" \in DOMAIN metadata THEN metadata["cache_type"] ELSE "<none>"

\* get_service_by_cache_type: the healthy instances that serve the model and
\* carry the cache_type; the pool answers with one of them
get_service_by_cache_type(map, cache_type, model_id) ==
    {n \in DOMAIN map :
        /\ Contains(HealthyServices(map, model_id), n)
        /\ MetaCacheType(map[n].metadata) = cache_type}

\* the hash of a session key
SessionHash(session_key) ==
    IF session_key[2] = "prompt_cache" THEN 1 ELSE 2

\* session affinity that lets the round-robin counter into the hash
get_service_by_session_counter(map, session_key, model_id) ==
    LET cands == HealthyServices(map, model_id) IN
    IF cands = << >> THEN None
    ELSE Some(cands[((SessionHash(session_key) + current_index) % Len(cands)) + 1])

\* get_service_by_session: the session key hashed, modulo the candidates
get_service_by_session(map, session_key, model_id) ==
    LET cands == HealthyServices(map, model_id) IN
    IF cands = << >> THEN None
    ELSE Some(cands[(SessionHash(session_key) % Len(cands)) + 1])

----------------------------------------------------------------------------
(* Router: proxy_handler *)

RECURSIVE SumSeq(_)
SumSeq(seq) == IF seq = << >> THEN 0 ELSE Head(seq) + SumSeq(Tail(seq))

\* request bodies: json says whether the body parses as a RoutingRequest;
\* model and prompt_cache_key are what the text of the body gives for them,
\* messages and prompt the byte lengths of their texts
Body(json, model, key, messages, prompt) ==
    [json |-> json, model |-> model, prompt_cache_key |-> key,
     messages |-> messages, prompt |-> prompt]

\* the requests clients send: method, body, X-Forwarded-For entries
Requests ==
    { [method |-> "GET",  body |-> Body(FALSE, None, None, None, None), xff |-> None],
      [method |-> "GET",  body |-> Body(FALSE, None, None, None, None), xff |-> Some("10.0.0.1")],
      [method |-> "POST", body |-> Body(FALSE, None, None, None, None), xff |-> None],
      [method |-> "POST", body |-> Body(FALSE, Some("m2"), Some("k1"), Some(<<60000>>), None), xff |-> None],
      [method |-> "PUT",  body |-> Body(TRUE, Some("m2"), Some("k1"), Some(<<60000>>), None), xff |-> None],
      [method |-> "POST", body |-> Body(TRUE, Some("m1"), None, Some(<<1000>>), None), xff |-> None],
      [method |-> "POST", body |-> Body(TRUE, Some("m1"), None, Some(<<51200>>), None), xff |-> None],
      [method |-> "POST", body |-> Body(TRUE, Some("m1"), None, None, Some(<<30000, 30000>>)), xff |-> None],
      [method |-> "POST", body |-> Body(TRUE, Some("m1"), Some("k1"), None, None), xff |-> None],
      [method |-> "POST", body |-> Body(TRUE, Some("m2"), Some("k1"), Some(<<1000>>), None), xff |-> None],
      [method |-> "POST", body |-> Body(TRUE, Some("m2"), None, Some(<<60000>>), None), xff |-> None],
      [method |-> "POST", body |-> Body(TRUE, Some("m3"), None, Some(<<1000>>), None), xff |-> Some("10.0.0.1")],
      [method |-> "POST", body |-> Body(TRUE, None, None, None, None), xff |-> None] }

\* extract_routing_fields
extract_routing_fields(body) ==
    IF ~body.json THEN None
    ELSE Some([model_id |-> body.model,
               prompt_cache_key |-> body.prompt_cache_key,
               message_size |->
                   IF body.messages # None THEN Some(SumSeq(body.messages[1]))
                   ELSE IF body.prompt # None THEN Some(SumSeq(body.prompt[1]))
                   ELSE None])

\* routing_fields taken from the body whatever the method
RoutingFields_anymethod(r) == extract_routing_fields(r.body)

\* routing_fields: only a POST body is looked at
RoutingFields(r) ==
    IF r.method = "POST" THEN extract_routing_fields(r.body) ELSE None

ModelId(r) ==
    IF RoutingFields(r) = None THEN None ELSE RoutingFields(r)[1].model_id

\* one entry of an X-Forwarded-For value: its text, and whether blanks
\* surround it
Entry(text, blanks) == [text |-> text, blanks |-> blanks]

\* str::trim
Trim(entry) == entry.text

\* the headers that matter: the entries of X-Forwarded-For between the commas
\* (None without the header) and User-Agent (None without the header)
Headers(xff, user_agent) == [xff |-> xff, user_agent |-> user_agent]

\* the first 16 hex digits of SHA-256 over the address and the User-Agent
IpHash(ip, user_agent) == <<"sha256", ip, user_agent>>

\* generate_session_from_ip with the remote address asked first
generate_session_from_ip_remote_first(headers, remote_addr) ==
    LET ip == IF remote_addr # None THEN remote_addr
              ELSE IF headers.xff # None THEN Some(Trim(Head(headers.xff[1])))
              ELSE None
        user_agent == IF headers.user_agent = None THEN "" ELSE headers.user_agent[1]
    IN
    IF ip = None \/ ip[1] = "" THEN None ELSE Some(IpHash(ip[1], user_agent))

\* generate_session_from_ip
generate_session_from_ip(headers, remote_addr) ==
    LET ip == IF headers.xff # None THEN Some(Trim(Head(headers.xff[1])))
              ELSE remote_addr
        user_agent == IF headers.user_agent = None THEN "" ELSE headers.user_agent[1]
    IN
    IF ip = None \/ ip[1] = "" THEN None ELSE Some(IpHash(ip[1], user_agent))

\* extract_prompt_cache_key_from_body
extract_prompt_cache_key_from_body(body) ==
    IF body.json THEN body.prompt_cache_key ELSE None

\* extract_session_id
extract_session_id(headers, body, remote_addr, model_id) ==
    LET key == extract_prompt_cache_key_from_body(body)
        ip_hash == generate_session_from_ip(headers, remote_addr)
        model_prefix == IF model_id = None THEN "default" ELSE model_id[1]
    IN
    IF key # None THEN Some(<<model_prefix, "prompt_cache", key[1]>>)
    ELSE IF ip_hash # None THEN Some(<<model_prefix, "ip", ip_hash[1]>>)
    ELSE None

\* session_id of proxy_handler, from the routing fields and the headers; the
\* handler has no remote address to pass
HandlerSessionId(rf, headers) ==
    LET model_id == IF rf = None THEN None ELSE rf[1].model_id
        prompt_cache_key == IF rf = None THEN None ELSE rf[1].prompt_cache_key
        model_prefix == IF model_id = None THEN "default" ELSE model_id[1]
        ip_hash == generate_session_from_ip(headers, None)
    IN
    IF prompt_cache_key # None
    THEN Some(<<model_prefix, "prompt_cache", prompt_cache_key[1]>>)
    ELSE IF ip_hash # None
    THEN Some(<<model_prefix, "ip", ip_hash[1]>>)
    ELSE None

\* the headers of a request of Requests
RequestHeaders(r) ==
    Headers(IF r.xff = None THEN None ELSE Some(<<Entry(r.xff[1], FALSE)>>), None)

\* session_id
SessionId(r) == HandlerSessionId(RoutingFields(r), RequestHeaders(r))

\* the cache_type the size tier asks for
CacheTypeFor(rf) ==
    LET message_size == IF rf.message_size = None THEN 0 ELSE rf.message_size[1] IN
    IF message_size > CACHE_TYPE_ROUTING_THRESHOLD THEN "static" ELSE "paged"

\* outcome of a selection: the instance, the tiers asked in order, the
\* cache_type the size tier was asked for, the candidates of the tier that
\* answered, and whether the round-robin counter was used
Selected(service, tiers, cache_type, cands, wrr) ==
    [service |-> service, tiers |-> tiers, cache_type |-> cache_type,
     cands |-> cands, wrr |-> wrr]

SeqToSet(seq) == {seq[i] : i \in DOMAIN seq}

\* the round-robin tier, reached after the tiers in `before`
RoundRobinTier(map, model_id, i, before, cache_type) ==
    LET s == get_next_healthy_service_by_model(map, model_id, i)
        cands == SeqToSet(HealthyServices(map, model_id))
    IN
    IF s = None
    THEN {Selected(NoService, Append(before, "wrr"), cache_type, cands, FALSE)}
    ELSE {Selected(s[1], Append(before, "wrr"), cache_type, cands, TRUE)}

\* "Get service": the selections one pass of the retry loop can make
Selection(map, r, i) ==
    LET rf == RoutingFields(r)
        model_id == ModelId(r)
        session_id == SessionId(r)
        healthy == SeqToSet(HealthyServices(map, model_id))
    IN
    IF rf # None
    THEN LET cache_type == CacheTypeFor(rf[1])
             by_cache == get_service_by_cache_type(map, cache_type, model_id)
         IN
         IF by_cache # {}
         THEN {Selected(s, <<"size">>, cache_type, by_cache, FALSE) : s \in by_cache}
         ELSE IF session_id # None
         THEN LET s == get_service_by_session(map, session_id[1], model_id) IN
              IF s # None
              THEN {Selected(s[1], <<"size", "session">>, cache_type, healthy, FALSE)}
              ELSE RoundRobinTier(map, model_id, i, <<"size", "session">>, cache_type)
         ELSE RoundRobinTier(map, model_id, i, <<"size">>, cache_type)
    ELSE IF session_id # None
    THEN LET s == get_service_by_session(map, session_id[1], model_id) IN
         IF s # None
         THEN {Selected(s[1], <<"session">>, "<none>", healthy, FALSE)}
         ELSE {Selected(NoService, <<"session">>, "<none>", healthy, FALSE)}
    ELSE RoundRobinTier(map, model_id, i, << >>, "<none>")

\* what upstream_request.send() and the reading of the answer come to: an
\* answer with a status, an answer whose body cannot be read, or no answer
UpstreamOutcomes ==
    { [kind |-> "status", status |-> 200],
      [kind |-> "status", status |-> 404],
      [kind |-> "status", status |-> 500],
      [kind |-> "unreadable", status |-> 200],
      [kind |-> "timeout", status |-> 0],
      [kind |-> "connect", status |-> 0],
      [kind |-> "other", status |-> 0] }

NoAnswer == [kind |-> "none", status |-> 0]

\* send() that takes a 5xx answer for an error too
IsTransportError_5xx(outcome) ==
    \/ outcome.kind \in {"timeout", "connect", "other"}
    \/ outcome.status >= 500

\* send() returned Err
IsTransportError(outcome) == outcome.kind \in {"timeout", "connect", "other"}

\* the status a transport error is mapped to: e.is_timeout(), e.is_connect()
MappedStatus(kind) ==
    IF kind = "timeout" THEN 504
    ELSE IF kind = "connect" THEN 503
    ELSE 502

\* a request arrives: body buffered, hints and session id extracted; the
\* handler is followed for one request
ProxyBegin(r) ==
    /\ req.pc = "idle"
    /\ req' = [pc |-> "select", request |-> r, attempt |-> 0,
               service |-> NoService, sends |-> << >>, tiers |-> << >>,
               cache_type |-> "<none>", last_error |-> "<none>",
               answer |-> NoAnswer, status |-> 0]
    /\ UNCHANGED <<now, registryVars, routerVars, order, current_index, hc, healthDue,
                   callers, took,
                   chosen, babysitterVars>>

\* one pass of the retry loop up to the choice of the instance
ProxySelect ==
    /\ req.pc = "select"
    /\ \E sel \in Selection(pool, req.request, current_index) :
        IF sel.service = NoService
        THEN /\ req' = [req EXCEPT !.pc = "done", !.status = 503,
                                   !.service = NoService,
                                   !.tiers = sel.tiers,
                                   !.cache_type = sel.cache_type]
             /\ UNCHANGED <<pool, current_index>>
        ELSE /\ req' = [req EXCEPT !.pc = "send",
                                   !.service = sel.service,
                                   !.tiers = sel.tiers,
                                   !.cache_type = sel.cache_type,
                                   !.sends = Append(@, [service |-> sel.service,
                                                        cands |-> sel.cands,
                                                        outcome |-> "pending"])]
             /\ IF sel.wrr
                THEN /\ current_index' = current_index + 1
                     /\ pool' = [pool EXCEPT ![sel.service].request_count = @ + 1]
                ELSE UNCHANGED <<pool, current_index>>
    /\ UNCHANGED <<now, registryVars, registry, pulls, syncDue, synclog, listed,
                   order, hc, healthDue, callers, took,
                   chosen, babysitterVars>>

MarkFailed(inst) ==
    [inst EXCEPT !.error_count = @ + 1, !.healthy = FALSE]

\* increment_request_count that also clears the error count
CountRequest_reset(inst) ==
    [inst EXCEPT !.request_count = @ + 1, !.error_count = 0]

CountRequest(inst) ==
    [inst EXCEPT !.request_count = @ + 1]

\* upstream_request.send() returns, and the rest of the pass
ProxySend(outcome) ==
    /\ req.pc = "send"
    /\ LET sent == [req EXCEPT !.sends[Len(req.sends)].outcome =
                                   IF outcome.kind \in {"status", "unreadable"}
                                   THEN "answer" ELSE "error"]
       IN
       IF IsTransportError(outcome)
       THEN /\ pool' = IF req.service \in DOMAIN pool
                       THEN [pool EXCEPT ![req.service] = MarkFailed(@)]
                       ELSE pool
            /\ IF req.attempt < max_retries - 1
               THEN req' = [sent EXCEPT !.pc = "select", !.attempt = @ + 1,
                                       !.last_error = outcome.kind]
               ELSE req' = [sent EXCEPT !.pc = "done", !.last_error = outcome.kind,
                                       !.status = MappedStatus(outcome.kind)]
       ELSE /\ pool' = IF req.service \in DOMAIN pool
                       THEN [pool EXCEPT ![req.service] = CountRequest(@)]
                       ELSE pool
            /\ req' = [sent EXCEPT !.pc = "done",
                                   !.answer = outcome,
                                   !.status = IF outcome.kind = "unreadable"
                                              THEN 502 ELSE outcome.status]
    /\ UNCHANGED <<now, registryVars, registry, pulls, syncDue, synclog, listed,
                   order, current_index, hc, healthDue, callers, took,
                   chosen, babysitterVars>>

----------------------------------------------------------------------------
(* Router: health checks (LoadBalancer::start_health_checks, HealthChecker) *)

\* --health-interval, --max-errors (defaults)
health_interval == 30

max_errors == 3

\* check_health that flips the bit only once max_errors failures are counted
check_health_threshold(inst, outcome, t) ==
    IF outcome = "2xx"
    THEN [inst EXCEPT !.healthy = TRUE, !.error_count = 0, !.last_check = t]
    ELSE [inst EXCEPT !.healthy = (inst.error_count + 1 < max_errors) /\ @,
                      !.error_count = @ + 1, !.last_check = t]

\* HealthChecker::check_health
check_health(inst, outcome, t) ==
    IF outcome = "2xx"
    THEN [inst EXCEPT !.healthy = TRUE, !.error_count = 0, !.last_check = t]
    ELSE [inst EXCEPT !.healthy = FALSE, !.error_count = @ + 1, !.last_check = t]

\* the loop spawns the round's task and goes to sleep; the task takes the list
\* of the instances
HealthRoundBegin ==
    /\ healthDue
    /\ healthDue' = FALSE
    /\ hc' = hc \cup DOMAIN pool
    /\ UNCHANGED <<now, registryVars, routerVars, order, current_index, req,
                   callers, took,
                   chosen, babysitterVars>>

\* the probe of one instance of the round answers
HealthProbe(n, outcome) ==
    /\ n \in hc
    /\ hc' = hc \ {n}
    /\ pool' = IF n \in DOMAIN pool
               THEN [pool EXCEPT ![n] = check_health(pool[n], outcome, now)]
               ELSE pool
    /\ UNCHANGED <<now, registryVars, registry, pulls, syncDue, synclog, listed,
                   order, current_index, req, healthDue, callers, took,
                   chosen, babysitterVars>>

----------------------------------------------------------------------------
(* Router: a pool of three workers behind the proxy *)

ProxyServices ==
    { [name |-> "A", host |-> "ha", port |-> 8000, weight |-> 1,
       metadata |-> [type |-> "openai-api", models |-> <<"m1">>, cache_type |-> "paged"]],
      [name |-> "B", host |-> "hb", port |-> 8000, weight |-> 2,
       metadata |-> [type |-> "openai-api", models |-> <<"m1">>, cache_type |-> "static"]],
      [name |-> "C", host |-> "hc", port |-> 8000, weight |-> 1,
       metadata |-> [type |-> "openai-api", models |-> <<"m2">>]] }

\* the Registry lists A as healthy
RecA ==
    [name |-> "A", host |-> "ha", port |-> 8000, url |-> Url("ha", 8000),
     is_healthy |-> TRUE, weight |-> 1,
     metadata |-> [type |-> "openai-api", models |-> <<"m1">>, cache_type |-> "paged"]]

ProxyInit ==
    /\ now = 0
    /\ services = << >>
    /\ reaper = [pc |-> "sleep", stale |-> {}]
    /\ prober = [pc |-> "sleep", snapshot |-> {}]
    /\ hb = IdleCall
    /\ sh = IdleCall
    /\ resp = NoResp
    /\ waiting = << >>
    /\ pool = [n \in {c.name : c \in ProxyServices} |->
                 LET c == CHOOSE c \in ProxyServices : c.name = n IN
                 NewServiceInstance(c.name, c.host, c.port, c.weight, c.metadata, 0)]
    /\ registry = {RecA}
    /\ pulls = << >>
    /\ syncDue = TRUE
    /\ synclog = NoSync
    /\ listed = [n \in {c.name : c \in ProxyServices} |-> 0]
    /\ order = <<"A", "B", "C">>
    /\ ProxyVarsInit

ProxyNext ==
    \/ \E r \in Requests : ProxyBegin(r)
    \/ ProxySelect
    \/ \E outcome \in UpstreamOutcomes : ProxySend(outcome)
    \/ HealthRoundBegin
    \/ \E n \in hc, outcome \in ProbeOutcomes : HealthProbe(n, outcome)
    \/ \E ok \in BOOLEAN : SyncFetch(ok)
    \/ \E i \in DOMAIN pulls : SyncApply(i)

\* One request is followed through proxy_handler in a window shorter than the
\* Router's timers (sync 10 s, health check 30 s): the round of each timer task
\* that falls into the window runs interleaved with the request.
ProxySpec == ProxyInit /\ [][ProxyNext]_vars

----------------------------------------------------------------------------
(* Router: concurrent weighted round-robin selections against a fixed pool *)

\* the largest weight an instance is configured with
MaxWeight == 2

\* the largest value the counter has when the selections start
MaxStartIndex == 2

\* the number of selections followed
MaxSelections == 12

\* get_next_healthy_service_by_model(None): the caller takes the read lock on
\* the map and collects the healthy instances
WrrCollect(c) ==
    /\ callers[c].pc = "idle"
    /\ Len(took) + Cardinality({d \in Callers : callers[d].pc = "take"}) < MaxSelections
    /\ LET healthy_services == HealthyServices(pool, None) IN
       /\ healthy_services # << >>
       /\ callers' = [callers EXCEPT ![c] = [pc |-> "take",
                                             healthy_services |-> healthy_services]]
    /\ UNCHANGED <<now, registryVars, routerVars, order, current_index, req, hc,
                   healthDue, took,
                   chosen, babysitterVars>>

\* under the write lock on current_index: the counter is read and advanced;
\* with a total weight of 0 the choice and its count are made under the lock
WrrTake(c) ==
    /\ callers[c].pc = "take"
    /\ LET cands == callers[c].healthy_services
           total_weight == TotalWeight(pool, cands)
           service == WeightedPick(pool, cands, current_index)
       IN
       /\ current_index' = current_index + 1
       /\ IF total_weight = 0
          THEN /\ took' = Append(took, [index |-> current_index, service |-> service])
               /\ pool' = [pool EXCEPT ![service].request_count = @ + 1]
               /\ callers' = [callers EXCEPT ![c] = IdleCaller]
          ELSE /\ took' = Append(took, [index |-> current_index, service |-> NoService])
               /\ callers' = [callers EXCEPT ![c] = [pc |-> "pick",
                                                     healthy_services |-> cands,
                                                     index |-> current_index,
                                                     ticket |-> Len(took) + 1]]
               /\ UNCHANGED pool
    /\ UNCHANGED <<now, registryVars, registry, pulls, syncDue, synclog, listed,
                   order, req, hc, healthDue,
                   chosen, babysitterVars>>

\* after the lock is released: the candidates are walked and the chosen
\* instance's request_count is incremented
WrrPick(c) ==
    /\ callers[c].pc = "pick"
    /\ LET service == WeightedPick(pool, callers[c].healthy_services, callers[c].index) IN
       /\ pool' = [pool EXCEPT ![service].request_count = @ + 1]
       /\ took' = [took EXCEPT ![callers[c].ticket].service = service]
    /\ callers' = [callers EXCEPT ![c] = IdleCaller]
    /\ UNCHANGED <<now, registryVars, registry, pulls, syncDue, synclog, listed,
                   order, current_index, req, hc, healthDue,
                   chosen, babysitterVars>>

\* three healthy workers with any weights; the counter has any value
WrrInit ==
    /\ now = 0
    /\ services = << >>
    /\ reaper = [pc |-> "sleep", stale |-> {}]
    /\ prober = [pc |-> "sleep", snapshot |-> {}]
    /\ hb = IdleCall
    /\ sh = IdleCall
    /\ resp = NoResp
    /\ waiting = << >>
    /\ \E weight \in [{c.name : c \in ProxyServices} -> 0..MaxWeight] :
          pool = [n \in {c.name : c \in ProxyServices} |->
                    LET c == CHOOSE c \in ProxyServices : c.name = n IN
                    NewServiceInstance(c.name, c.host, c.port, weight[n], c.metadata, 0)]
    /\ registry = {}
    /\ pulls = << >>
    /\ syncDue = FALSE
    /\ synclog = NoSync
    /\ listed = [n \in {c.name : c \in ProxyServices} |-> 0]
    /\ order = <<"A", "B", "C">>
    /\ current_index \in 0..MaxStartIndex
    /\ req = IdleReq
    /\ hc = {}
    /\ healthDue = FALSE
    /\ callers = [c \in Callers |-> IdleCaller]
    /\ took = << >>
    /\ chosen = << >>
    /\ babysitter = NewBabysitterState
    /\ client = NewClient

WrrNext ==
    \/ \E c \in Callers : WrrCollect(c)
    \/ \E c \in Callers : WrrTake(c)
    \/ \E c \in Callers : WrrPick(c)

WrrSpec == WrrInit /\ [][WrrNext]_vars

----------------------------------------------------------------------------
(* Router: session-affine selections among other traffic *)

\* the number of session-affine selections followed
MaxSessionSelections == 2

\* the number of round-robin selections other requests make in between
MaxOtherSelections == 2

\* proxy_handler asks get_service_by_session for request r
SessionSelect(r) ==
    /\ SessionId(r) # None
    /\ Len(chosen) < MaxSessionSelections
    /\ chosen' = Append(chosen,
            [session_key |-> SessionId(r)[1],
             model_id |-> ModelId(r),
             candidates |-> HealthyServices(pool, ModelId(r)),
             index |-> current_index,
             service |-> get_service_by_session(pool, SessionId(r)[1], ModelId(r))])
    /\ UNCHANGED <<now, registryVars, routerVars, order, current_index, req, hc,
                   healthDue, callers, took, babysitterVars>>

\* another request is served by the round-robin tier
OtherSelect ==
    /\ current_index < MaxOtherSelections
    /\ LET s == get_next_healthy_service_by_model(pool, None, current_index) IN
       /\ s # None
       /\ pool' = [pool EXCEPT ![s[1]].request_count = @ + 1]
    /\ current_index' = current_index + 1
    /\ UNCHANGED <<now, registryVars, registry, pulls, syncDue, synclog, listed,
                   order, req, hc, healthDue, callers, took, chosen, babysitterVars>>

StickyNext ==
    \/ \E r \in Requests : SessionSelect(r)
    \/ OtherSelect
    \/ HealthRoundBegin
    \/ \E n \in hc, outcome \in ProbeOutcomes : HealthProbe(n, outcome)

StickySpec == ProxyInit /\ [][StickyNext]_vars

----------------------------------------------------------------------------
(* Router: the session id of a request *)

\* X-Forwarded-For values: none, empty, one address, one address with blanks
\* around it, two addresses
ForwardedFor ==
    { None,
      Some(<<Entry("", FALSE)>>),
      Some(<<Entry("10.0.0.1", FALSE)>>),
      Some(<<Entry("10.0.0.1", TRUE)>>),
      Some(<<Entry("10.0.0.2", FALSE), Entry("10.0.0.1", FALSE)>>) }

UserAgents == {None, Some("test-agent")}

RemoteAddrs == {None, Some(""), Some("192.168.1.1")}

\* bodies with and without a prompt_cache_key, parseable or not
SessionBodies ==
    { Body(json, model, key, None, None) :
        json \in BOOLEAN, model \in {None, Some("m1")},
        key \in {None, Some(""), Some("k1")} }

\* a request arrives whose session id is asked for
SessionCall(method, headers, body, remote_addr) ==
    /\ req.pc = "idle"
    /\ req' = [pc |-> "extract", method |-> method, headers |-> headers,
               body |-> body, remote_addr |-> remote_addr]
    /\ UNCHANGED <<now, registryVars, routerVars, order, current_index, hc,
                   healthDue, callers, took, chosen, babysitterVars>>

\* the session id is computed: by extract_session_id with the remote address,
\* and by proxy_handler from its routing fields
SessionReturn ==
    /\ req.pc = "extract"
    /\ LET rf == IF req.method = "POST" THEN extract_routing_fields(req.body) ELSE None
           model_id == IF rf = None THEN None ELSE rf[1].model_id
       IN
       req' = [pc |-> "extracted", method |-> req.method, headers |-> req.headers,
               body |-> req.body, remote_addr |-> req.remote_addr,
               routing_fields |-> rf,
               extracted |-> extract_session_id(req.headers, req.body,
                                                req.remote_addr, req.body.model),
               session_id |-> HandlerSessionId(rf, req.headers)]
    /\ UNCHANGED <<now, registryVars, routerVars, order, current_index, hc,
                   healthDue, callers, took, chosen, babysitterVars>>

SessionNext ==
    \/ \E method \in {"GET", "POST"}, xff \in ForwardedFor, ua \in UserAgents,
          body \in SessionBodies, remote_addr \in RemoteAddrs :
            SessionCall(method, Headers(xff, ua), body, remote_addr)
    \/ SessionReturn

SessionSpec == ProxyInit /\ [][SessionNext]_vars

----------------------------------------------------------------------------
(* Router: health-check rounds over time *)

\* the number of health-check intervals followed
MaxHealthTicks == 2

\* the health-check loop's sleep ends; the probes of the last round have
\* answered or timed out by then (the timeout is shorter than the interval)
HealthTick ==
    /\ ~healthDue
    /\ hc = {}
    /\ now < MaxHealthTicks * health_interval
    /\ now' = now + health_interval
    /\ healthDue' = TRUE
    /\ UNCHANGED <<registryVars, routerVars, order, current_index, req, hc,
                   callers, took, chosen, babysitterVars>>

HealthNext ==
    \/ HealthTick
    \/ HealthRoundBegin
    \/ \E n \in hc, outcome \in ProbeOutcomes : HealthProbe(n, outcome)

HealthSpec == ProxyInit /\ [][HealthNext]_vars

----------------------------------------------------------------------------
(* Router: syncs over a pool that probes and requests have touched *)

\* the number of half minutes followed
MaxLongTicks == 1

\* half a minute passes: the sync loop and the health-check loop have woken;
\* the pull and the probes of the rounds before have answered or timed out
LongTick ==
    /\ ~syncDue
    /\ ~healthDue
    /\ hc = {}
    /\ pulls = << >>
    /\ now < MaxLongTicks * health_interval
    /\ now' = now + health_interval
    /\ syncDue' = TRUE
    /\ healthDue' = TRUE
    /\ synclog' = NoSync
    /\ UNCHANGED <<registryVars, pool, registry, pulls, listed, order, current_index,
                   req, hc, callers, took, chosen, babysitterVars>>

UpdateNext ==
    \/ LongTick
    \/ \E c \in RegistryContents : RegistryChange(c)
    \/ \E ok \in BOOLEAN : SyncFetch(ok)
    \/ \E i \in DOMAIN pulls : SyncApply(i)
    \/ HealthRoundBegin
    \/ \E n \in hc, outcome \in ProbeOutcomes : HealthProbe(n, outcome)
    \/ OtherSelect

UpdateSpec == Init /\ [][UpdateNext]_vars

----------------------------------------------------------------------------
(* Babysitter: ProcessManager *)

\* the largest --max-restarts followed
MaxRestartLimit == 2

\* config.port, the port the worker is told to listen on
service_target_port == 8000

\* detect_service_port: max_wait, the first wait_interval and its cap, in
\* milliseconds
max_wait == 30000

first_wait_interval == 100

wait_interval_cap == 1000

\* the time one check_service_ready takes: next to nothing when the connection
\* is refused, up to the connect timeout and two HTTP timeouts otherwise
CheckDurations == {0, 1000}

\* what a readiness probe runs into: the TCP connect fails, or the two URLs
\* answer with a status or not at all (0)
ReadyProbes ==
    { [connect |-> FALSE, answers |-> <<0, 0>>],
      [connect |-> TRUE, answers |-> <<0, 0>>],
      [connect |-> TRUE, answers |-> <<500, 503>>],
      [connect |-> TRUE, answers |-> <<200, 200>>],
      [connect |-> TRUE, answers |-> <<0, 404>>] }

\* check_service_ready
check_service_ready(probe) ==
    /\ probe.connect
    /\ \E k \in DOMAIN probe.answers :
          \/ probe.answers[k] \in 200..299
          \/ probe.answers[k] = 404

\* main: the configuration is read, the state built, the manager spawned
BabysitterMain(max_restarts) ==
    /\ babysitter.pc = "main"
    /\ babysitter' = [babysitter EXCEPT !.pc = "start", !.max_restarts = max_restarts]
    /\ UNCHANGED <<now, registryVars, routerVars, proxyVars, client>>

\* the child the state holds is running, has exited, or there is none
\* (a child is "running", "exited" on its own, or "killed" by the manager)
ProcessStatus(b) ==
    IF b.process = None THEN "none" ELSE b.children[b.process[1]]

\* a cleanup that forgets the previous child without killing it
CleanUp_forget(b) == b.children

\* "Clean up any existing process": process.take(), kill() and wait()
CleanUp(b) ==
    IF b.process = None THEN b.children
    ELSE [b.children EXCEPT ![b.process[1]] = IF @ = "running" THEN "killed" ELSE @]

\* start_service: the previous child is killed and reaped; the command is
\* built and spawned, which may fail; after a spawn the child is stored and
\* the detection begins with its first sleep
StartService(spawned) ==
    /\ babysitter.pc = "start"
    /\ babysitter' =
         IF spawned
         THEN [babysitter EXCEPT !.pc = "detect",
                                 !.children = Append(CleanUp(babysitter), "running"),
                                 !.process = Some(Len(babysitter.children) + 1),
                                 !.starts = @ + 1,
                                 !.spawns = @ + 1,
                                 !.elapsed = first_wait_interval,
                                 !.wait_interval = first_wait_interval]
         ELSE [babysitter EXCEPT !.pc = "monitor",
                                 !.children = CleanUp(babysitter),
                                 !.process = None,
                                 !.starts = @ + 1]
    /\ UNCHANGED <<now, registryVars, routerVars, proxyVars, client>>

\* the child exits on its own
ChildExit ==
    /\ \E pid \in DOMAIN babysitter.children :
          /\ babysitter.children[pid] = "running"
          /\ babysitter' = [babysitter EXCEPT !.children[pid] = "exited"]
    /\ UNCHANGED <<now, registryVars, routerVars, proxyVars, client>>

\* detection that gives up without setting the port
detect_service_port_unset(b, probe, duration) ==
    IF b.elapsed > max_wait
    THEN [b EXCEPT !.pc = "monitor", !.detections = @ + 1]
    ELSE IF check_service_ready(probe)
    THEN [b EXCEPT !.pc = "monitor", !.detections = @ + 1,
                   !.service_port = Some(service_target_port)]
    ELSE [b EXCEPT !.elapsed = @ + duration + b.wait_interval,
                   !.wait_interval = IF 2 * @ < wait_interval_cap
                                     THEN 2 * @ ELSE wait_interval_cap]

\* detect_service_port: one pass of its loop
detect_service_port(b, probe, duration) ==
    IF b.elapsed > max_wait
    THEN [b EXCEPT !.pc = "monitor", !.detections = @ + 1,
                   !.service_port = Some(service_target_port)]
    ELSE IF check_service_ready(probe)
    THEN [b EXCEPT !.pc = "monitor", !.detections = @ + 1,
                   !.service_port = Some(service_target_port)]
    ELSE [b EXCEPT !.elapsed = @ + duration + b.wait_interval,
                   !.wait_interval = IF 2 * @ < wait_interval_cap
                                     THEN 2 * @ ELSE wait_interval_cap]

DetectStep(probe, duration) ==
    /\ babysitter.pc = "detect"
    /\ babysitter' = detect_service_port(babysitter, probe, duration)
    /\ UNCHANGED <<now, registryVars, routerVars, proxyVars, client>>

\* the restart limit that lets one restart too many through
RestartLimitReached_late(restart_count, max_restarts) == restart_count > max_restarts

\* "Check restart limit"
RestartLimitReached(restart_count, max_restarts) == restart_count >= max_restarts

\* monitor_service wakes and polls the child (try_wait may fail); if the
\* child is gone run checks the restart limit and counts the restart
MonitorPoll(poll_error) ==
    /\ babysitter.pc = "monitor"
    /\ LET process_died == \/ ProcessStatus(babysitter) = "none"
                           \/ ProcessStatus(babysitter) = "exited"
                           \/ poll_error
       IN
       babysitter' =
         IF ~process_died THEN babysitter
         ELSE IF RestartLimitReached(babysitter.restart_count, babysitter.max_restarts)
         THEN [babysitter EXCEPT !.pc = "terminated"]
         ELSE [babysitter EXCEPT !.pc = "sleep", !.restart_count = @ + 1]
    /\ UNCHANGED <<now, registryVars, routerVars, proxyVars, client>>

\* sleep(restart_delay) ends
RestartDelay ==
    /\ babysitter.pc = "sleep"
    /\ babysitter' = [babysitter EXCEPT !.pc = "start"]
    /\ UNCHANGED <<now, registryVars, routerVars, proxyVars, client>>

BabysitterNext ==
    \/ \E max_restarts \in 0..MaxRestartLimit : BabysitterMain(max_restarts)
    \/ \E spawned \in BOOLEAN : StartService(spawned)
    \/ ChildExit
    \/ \E probe \in ReadyProbes, duration \in CheckDurations : DetectStep(probe, duration)
    \/ \E poll_error \in BOOLEAN : MonitorPoll(poll_error)
    \/ RestartDelay

BabysitterSpec == ProxyInit /\ [][BabysitterNext]_vars

\* the runtime keeps running the manager's task: a sleep ends, a probe returns
BabysitterLiveSpec ==
    BabysitterSpec /\ WF_vars(\E probe \in ReadyProbes, duration \in CheckDurations :
                                 DetectStep(probe, duration))

----------------------------------------------------------------------------
(* Babysitter: main and BabysitterRegistryClient *)

\* config.service_name() and the name of the worker's record
service_name == "mock-8000"

server_name == "mock-8000-server"

\* the model objects the worker answers GET /v1/models with
ModelLists == { << >>, <<[id |-> "m1"]>> }

\* config_file.metadata_json(): the metadata section of the config file
ConfigMetadata ==
    { << >>,
      [cache_type |-> "paged"],
      [type |-> "vllm", models |-> << >>] }

\* "for (key, value) in config_metadata { metadata_obj.insert(key, value) }"
MergeMetadata(metadata, config_metadata) ==
    [k \in DOMAIN metadata \cup DOMAIN config_metadata |->
        IF k \in DOMAIN config_metadata THEN config_metadata[k] ELSE metadata[k]]

\* the ids of the fetched model objects
ModelIds(models) == [i \in DOMAIN models |-> models[i].id]

\* the body register_babysitter posts
BabysitterRecord ==
    [host |-> "h1", hostname |-> "h1", port |-> service_target_port + 1,
     url |-> Url("h1", service_target_port + 1), status |-> "running",
     metadata |-> [type |-> "mock", babysitter |-> "enhanced"]]

\* the body register_managed_service posts
ManagedRecord(port, models, config_metadata) ==
    [host |-> "h1", hostname |-> "h1", port |-> port,
     url |-> Url("h1", port), status |-> "running",
     metadata |-> MergeMetadata([type |-> "openai-api",
                                 parent_service |-> service_name,
                                 babysitter |-> "enhanced",
                                 models |-> ModelIds(models),
                                 models_list |-> models],
                                config_metadata)]

\* main has spawned the process manager; it builds the registry client from
\* the configuration and spawns it, next to the HTTP server
ClientStart(config_metadata) ==
    /\ babysitter.pc # "main"
    /\ client.main = "running"
    /\ client.run = "off"
    /\ client' = [client EXCEPT !.run = "self", !.server = "on",
                                !.config_metadata = config_metadata,
                                !.posted = [op |-> "none"]]
    /\ UNCHANGED <<now, registryVars, routerVars, proxyVars, babysitter>>

\* the network between the Babysitter and the Registry comes and goes
RegistryReach(up) ==
    /\ client.up # up
    /\ client' = [client EXCEPT !.up = up, !.posted = [op |-> "none"]]
    /\ UNCHANGED <<now, registryVars, routerVars, proxyVars, babysitter>>

\* the worker starts or stops answering /v1/models with a list
WorkerModels(models) ==
    /\ client.worker_models # models
    /\ client' = [client EXCEPT !.worker_models = models, !.posted = [op |-> "none"]]
    /\ UNCHANGED <<now, registryVars, routerVars, proxyVars, babysitter>>

\* what POST /services does to the directory when it arrives
Registered(map, name, body, t) == Insert(map, name, NewServiceInfo(name, body, t))

\* what POST /services/:name/heartbeat does to the directory when it arrives
Heartbeaten(map, name, t) ==
    IF name \in DOMAIN map THEN [map EXCEPT ![name] = update_heartbeat(@, t)] ELSE map

\* run: register_babysitter, once; whatever it answers the registration of
\* the worker is spawned and the heartbeat loop entered
RegisterBabysitter ==
    /\ client.run = "self"
    /\ services' = IF client.up
                   THEN Registered(services, service_name, BabysitterRecord, now)
                   ELSE services
    /\ client' = [client EXCEPT !.run = "sleep", !.managed = "wait_port",
                                !.posted = [op |-> "register", name |-> service_name]]
    /\ UNCHANGED <<now, reaper, prober, hb, sh, resp, waiting, routerVars, proxyVars,
                   babysitter>>

\* the heartbeat loop wakes: send_heartbeat for the Babysitter's own name
HeartbeatOwn ==
    /\ client.run = "sleep"
    /\ services' = IF client.up THEN Heartbeaten(services, service_name, now) ELSE services
    /\ client' = [client EXCEPT !.run = "server",
                                !.posted = [op |-> "heartbeat", name |-> service_name]]
    /\ UNCHANGED <<now, reaper, prober, hb, sh, resp, waiting, routerVars, proxyVars,
                   babysitter>>

\* a heartbeat loop that asks whether the worker's record was registered
HeartbeatForServer_registered(b, c) == c.registered

\* "Send heartbeat for managed service if registered": service_port.is_some()
HeartbeatForServer(b, c) == b.service_port # None

\* the rest of the tick: service_port is read and the worker's heartbeat sent
HeartbeatServer ==
    /\ client.run = "server"
    /\ IF HeartbeatForServer(babysitter, client)
       THEN /\ services' = IF client.up
                           THEN Heartbeaten(services, server_name, now)
                           ELSE services
            /\ client' = [client EXCEPT !.run = "sleep",
                                        !.posted = [op |-> "heartbeat",
                                                    name |-> server_name]]
       ELSE /\ client' = [client EXCEPT !.run = "sleep", !.posted = [op |-> "none"]]
            /\ UNCHANGED services
    /\ UNCHANGED <<now, reaper, prober, hb, sh, resp, waiting, routerVars, proxyVars,
                   babysitter>>

\* register_managed_service: the head of its loop reads service_port and sleeps
\* 100 ms while there is none
ManagedPoll ==
    /\ client.managed = "wait_port"
    /\ client' = IF babysitter.service_port = None
                 THEN [client EXCEPT !.posted = [op |-> "none"]]
                 ELSE [client EXCEPT !.managed = "fetch",
                                     !.port = babysitter.service_port,
                                     !.posted = [op |-> "none"]]
    /\ UNCHANGED <<now, registryVars, routerVars, proxyVars, babysitter>>

\* a registration that goes on with whatever list was fetched
AfterFetch_any(models) == "post"

\* "if models.is_empty()": retry after 2 s, else build and post the record
AfterFetch(models) == IF models = << >> THEN "retry" ELSE "post"

\* fetch_models: the list the worker serves, empty after 50 vain attempts
FetchModels ==
    /\ client.managed = "fetch"
    /\ client' = [client EXCEPT !.managed = AfterFetch(client.worker_models),
                                !.models = client.worker_models,
                                !.posted = [op |-> "none"]]
    /\ UNCHANGED <<now, registryVars, routerVars, proxyVars, babysitter>>

\* the record is posted; success ends the task, anything else retries after 2 s
RegisterManaged ==
    LET body == ManagedRecord(client.port[1], client.models, client.config_metadata) IN
    /\ client.managed = "post"
    /\ services' = IF client.up
                   THEN Registered(services, server_name, body, now)
                   ELSE services
    /\ client' = [client EXCEPT !.managed = IF client.up THEN "done" ELSE "retry",
                                !.registered = @ \/ client.up,
                                !.posted = [op |-> "register", name |-> server_name]]
    /\ UNCHANGED <<now, reaper, prober, hb, sh, resp, waiting, routerVars, proxyVars,
                   babysitter>>

\* sleep(2 s) ends, the loop starts over
ManagedRetry ==
    /\ client.managed = "retry"
    /\ client' = [client EXCEPT !.managed = "wait_port", !.posted = [op |-> "none"]]
    /\ UNCHANGED <<now, registryVars, routerVars, proxyVars, babysitter>>

\* a shutdown that kills and reaps the child before the tasks are stopped
ShutdownChildren_kill(b) ==
    [pid \in DOMAIN b.children |->
        IF b.children[pid] = "running" THEN "killed" ELSE b.children[pid]]

\* what main's shutdown does to the children: nothing
ShutdownChildren(b) == b.children

\* ctrl_c: the registry client, the process manager and the HTTP server are
\* aborted and main returns, which drops the runtime with the detached
\* registration task
Shutdown ==
    /\ client.main = "running"
    /\ client.run # "off"
    /\ client' = [client EXCEPT !.main = "stopped", !.run = "aborted",
                                !.managed = "aborted", !.server = "aborted",
                                !.posted = [op |-> "none"]]
    /\ babysitter' = [babysitter EXCEPT !.pc = "aborted",
                                        !.children = ShutdownChildren(babysitter)]
    /\ UNCHANGED <<now, registryVars, routerVars, proxyVars>>

\* the probes that find the worker ready
ReadyAnswers == {probe \in ReadyProbes : check_service_ready(probe)}

\* the process manager as far as the client depends on it: the worker is
\* spawned, found ready (the 30 s of a worker that never answers are followed
\* in BabysitterSpec), crashes and is restarted once
ClientNext ==
    \/ BabysitterMain(1)
    \/ \E spawned \in BOOLEAN : StartService(spawned)
    \/ ChildExit
    \/ \E probe \in ReadyAnswers : DetectStep(probe, 0)
    \/ \E poll_error \in BOOLEAN : MonitorPoll(poll_error)
    \/ RestartDelay
    \/ \E config_metadata \in ConfigMetadata : ClientStart(config_metadata)
    \/ \E up \in BOOLEAN : RegistryReach(up)
    \/ \E models \in ModelLists : WorkerModels(models)
    \/ RegisterBabysitter
    \/ HeartbeatOwn
    \/ HeartbeatServer
    \/ ManagedPoll
    \/ FetchModels
    \/ RegisterManaged
    \/ ManagedRetry
    \/ Shutdown

ClientSpec == ProxyInit /\ [][ClientNext]_vars

\* The runtime polls every spawned task that is not suspended: sleeps end, a
\* request to the Registry or to the worker answers or fails within its
\* timeout, and the process manager goes on with its loop. Nothing is assumed
\* of the network, of the worker's answers or of the child's life.
ClientLiveSpec ==
    /\ ClientSpec
    /\ WF_vars(BabysitterMain(1))
    /\ WF_vars(\E spawned \in BOOLEAN : StartService(spawned))
    /\ WF_vars(\E probe \in ReadyAnswers : DetectStep(probe, 0))
    /\ WF_vars(\E poll_error \in BOOLEAN : MonitorPoll(poll_error))
    /\ WF_vars(RestartDelay)
    /\ WF_vars(\E config_metadata \in ConfigMetadata : ClientStart(config_metadata))
    /\ WF_vars(RegisterBabysitter)
    /\ WF_vars(HeartbeatOwn)
    /\ WF_vars(HeartbeatServer)
    /\ WF_vars(ManagedPoll)
    /\ WF_vars(FetchModels)
    /\ WF_vars(RegisterManaged)
    /\ WF_vars(ManagedRetry)

----------------------------------------------------------------------------
(* Properties of the Registry directory *)

\* the health predicate of the data model, written out
Fresh(n) ==
    /\ services[n].status = "running"
    /\ now - services[n].last_heartbeat < 120

\* C1: the health the Registry reports at observation time `now` (is_healthy of
\* a Get or List record, the healthy=true|false List filter) is true iff the
\* record's status is "running" and now - last_heartbeat < 120 s.
C1_HealthIffRunningAndFresh ==
    /\ \A n \in DOMAIN services :
          get_service_response(n).service.is_healthy <=> Fresh(n)
    /\ \A q \in ListQueries :
          /\ \A d \in services_response(q[1], q[2]) : d.is_healthy <=> Fresh(d.name)
          /\ q[2] # NoFilter
                => {d.name : d \in services_response(q[1], q[2])}
                   = {n \in DOMAIN services :
                        /\ q[1] # NoFilter => services[n].status = q[1]
                        /\ Fresh(n) <=> (q[2] \in {"true", "TRUE"})}

\* a List with healthy=false returns a record that is running but stale, and
\* lists with healthy=true do not return it
C1_Witness ==
    \E d \in services_response(NoFilter, "false") :
        /\ d.status = "running"
        /\ now - d.last_heartbeat = 120
        /\ services_response("running", "true") = {}

\* C2: the Reaper removes a record only if now - last_heartbeat > 300 s holds
\* for it at the moment it is removed.
C2_ReaperRemovesOnlyStale ==
    [][ReaperRemove =>
          \A n \in reaper.stale \cap DOMAIN services :
              now - services[n].last_heartbeat > 300]_vars

\* the clock values from which more than 300 s of model time remain
EarlyTimes ==
    {t \in {k * cleanup_interval : k \in 0..MaxTicks} :
        t + 300 < MaxTicks * cleanup_interval}

\* C3: a record whose last_heartbeat is not written again (no Heartbeat, Update,
\* Register or successful probe) is eventually removed by the Reaper.
C3_StaleEventuallyRemoved ==
    \A n \in Names : \A t \in EarlyTimes :
        (Present(n) /\ services[n].last_heartbeat = t)
           ~> (~Present(n) \/ services[n].last_heartbeat # t)

\* the Reaper has collected a record that went 300 s without a refresh and is
\* about to remove it
C3_Witness ==
    /\ reaper.pc = "remove"
    /\ \E n \in reaper.stale \cap DOMAIN services :
          /\ now - services[n].last_heartbeat > 300
          /\ services[n].last_heartbeat \in EarlyTimes

\* C4: a name leaves the directory only by Unregister or by the Reaper, and a
\* probe (background or on demand) changes nothing of a record except
\* health_status, and last_heartbeat only when the probe succeeded.
ProbeStep ==
    \/ \E e \in prober.snapshot, o \in ProbeOutcomes : ProberProbe(e, o)
    \/ \E o \in ProbeOutcomes : ServiceHealthProbe(o)

SameButHealth(r1, r2) ==
    /\ [r1 EXCEPT !.health_status = "", !.last_heartbeat = 0]
         = [r2 EXCEPT !.health_status = "", !.last_heartbeat = 0]
    /\ r1.last_heartbeat # r2.last_heartbeat => r2.health_status = "healthy"

C4_ProbeNeverRemoves ==
    [][/\ \A n \in DOMAIN services :
             n \notin DOMAIN services'
                => \/ unregister_service_handler(n)
                   \/ ReaperRemove /\ n \in reaper.stale
       /\ ProbeStep
             => /\ DOMAIN services' = DOMAIN services
                /\ \A n \in DOMAIN services : SameButHealth(services[n], services'[n])
      ]_vars

\* a failed probe has left its mark on a record that is still in the directory
C4_Witness ==
    \E n \in DOMAIN services : services[n].health_status = "unhealthy"

\* C5: a background probe of a record of the snapshot that answers 2xx sets
\* health_status to healthy and last_heartbeat to now; any other outcome sets
\* health_status to unhealthy and leaves last_heartbeat unchanged.
C5_BackgroundProbeEffect ==
    [][\A e \in prober.snapshot, o \in ProbeOutcomes :
          (ProberProbe(e, o) /\ e.attached)
             => IF o = "2xx"
                THEN /\ services'[e.name].health_status = "healthy"
                     /\ services'[e.name].last_heartbeat = now
                ELSE /\ services'[e.name].health_status = "unhealthy"
                     /\ services'[e.name].last_heartbeat
                           = services[e.name].last_heartbeat
      ]_vars

\* C6: Register(body) answers 201, for a new name and for an existing one, and
\* a Get of the name that follows it returns the registered host, port,
\* hostname, url, status and metadata, with health_status unknown and
\* last_heartbeat the registration time.
C6_RegisterThenGet ==
    [][\A n \in Names, body \in RegisterBodies :
          register_service_handler(n, body)
             => /\ resp'.code = 201
                /\ get_service_response(n)'.code = 200
                /\ get_service_response(n)'.service.name = n
                /\ get_service_response(n)'.service.host = body.host
                /\ get_service_response(n)'.service.port = body.port
                /\ get_service_response(n)'.service.hostname = body.hostname
                /\ get_service_response(n)'.service.url = body.url
                /\ get_service_response(n)'.service.status = body.status
                /\ get_service_response(n)'.service.metadata = body.metadata
                /\ get_service_response(n)'.service.health_status = "unknown"
                /\ get_service_response(n)'.service.last_heartbeat = now
      ]_vars

\* a Register has overwritten an older record of the name, whose probe is still
\* in flight, and a Get returns the record as registered
C6_Witness ==
    /\ resp.op = "register"
    /\ resp.code = 201
    /\ get_service_response(resp.name).code = 200
    /\ get_service_response(resp.name).service.health_status = "unknown"
    /\ get_service_response(resp.name).service.last_heartbeat > 0
    /\ \E e \in prober.snapshot : e.name = resp.name /\ ~e.attached

\* C7 as claimed: registered_at (timestamp) of a name is set at its first
\* registration and unchanged by any later Register, Update or Heartbeat.
C7_RegisteredAtSetOnce ==
    [][\A n \in DOMAIN services \cap DOMAIN services' :
          services'[n].timestamp = services[n].timestamp]_vars

\* C7 as amended: registered_at is set by every Register of the name, to the
\* time of that Register, and no other operation on the name changes it.
C7_RegisteredAtSetByRegister ==
    [][\A n \in DOMAIN services' :
          IF \E body \in RegisterBodies : register_service_handler(n, body)
          THEN services'[n].timestamp = now
          ELSE n \in DOMAIN services
               /\ services'[n].timestamp = services[n].timestamp]_vars

\* a record that was updated or sent a heartbeat after it was registered
C7_Witness ==
    \E n \in DOMAIN services :
        /\ services[n].last_heartbeat > services[n].timestamp
        /\ services[n].timestamp > 0

\* C8: Get, Update, Unregister, Heartbeat and ServiceHealth on a name that is
\* not in the directory answer 404 and leave the directory unchanged; only
\* Register puts a name into the directory.
C8_UnknownNameIs404 ==
    [][/\ \A n \in Names \ DOMAIN services :
             get_service_handler(n)
                => /\ get_service_response(n).code = 404
                   /\ services' = services
       /\ \A n \in Names \ DOMAIN services :
             ( \/ unregister_service_handler(n)
               \/ ServiceHealthBegin(n)
               \/ \E p \in UpdatePayloads : update_service_handler(n, p)
               \/ \E st \in HeartbeatStatuses : HeartbeatBegin(n, st) )
                => /\ resp'.code = 404
                   /\ services' = services
       /\ \A n \in DOMAIN services' \ DOMAIN services :
             \E body \in RegisterBodies : register_service_handler(n, body)
       /\ \A n \in Names :
             get_service_response(n).code = IF n \in DOMAIN services THEN 200 ELSE 404
      ]_vars

\* a heartbeat for a name that is not registered was answered 404
C8_Witness ==
    /\ resp.op = "heartbeat"
    /\ resp.code = 404
    /\ resp.name \notin DOMAIN services
    /\ now > 0

\* C9: last_heartbeat of a record never decreases.
C9_HeartbeatMonotonic ==
    [][\A n \in DOMAIN services \cap DOMAIN services' :
          services'[n].last_heartbeat >= services[n].last_heartbeat]_vars

----------------------------------------------------------------------------
(* Properties of the Router pool *)

NonStatic(map) == {n \in DOMAIN map : ~MetaStatic(map[n].metadata)}

\* C10 as stated: in every state of the Router, pulls failing or not, every
\* non-static instance of the pool was listed by a Registry sync within the last
\* grace period plus one sync interval.
C10_SeenWithinGraceAlways ==
    \A n \in NonStatic(pool) :
        now - listed[n] <= service_removal_grace_period + registry_sync_interval

\* C10 as the code has it: a successful sync leaves no non-static instance that
\* its pull did not list and whose last_seen is a grace period or more old (it
\* removes them in that step), and only a successful sync changes the pool: a
\* failed pull, and the time that passes while pulls fail, leave every instance
\* in place however long ago it was last listed.
C10_SuccessfulSyncEnforcesGrace ==
    [][ /\ synclog'.result = "ok" =>
            /\ \A n \in NonStatic(pool') \ synclog'.names :
                    now' - pool'[n].last_seen < service_removal_grace_period
            /\ \A n \in synclog'.removed :
                    /\ n \in DOMAIN pool
                    /\ n \notin DOMAIN pool'
                    /\ n \notin synclog'.names
                    /\ now' - pool[n].last_seen >= service_removal_grace_period
        /\ synclog'.result # "ok" => pool' = pool ]_vars

\* a successful sync has just removed w1, which its pull did not list
C10_Witness ==
    /\ synclog.result = "ok"
    /\ "w1" \in synclog.removed
    /\ "w1" \notin DOMAIN pool

\* C11: a step removes an instance from the pool only if it is a successful sync
\* whose pull does not name the instance and now - last_seen has reached the
\* grace period; a failed pull leaves the pool, membership and fields, as it was.
C11_RemovalOnlyByAbsenceAndGrace ==
    [][ /\ \A n \in DOMAIN pool \ DOMAIN pool' :
            /\ synclog'.result = "ok"
            /\ n \notin synclog'.names
            /\ now - pool[n].last_seen >= service_removal_grace_period
        /\ synclog'.result = "err" => pool' = pool /\ listed' = listed ]_vars

\* a pull has just failed while w1, last seen a grace period or more ago, is in
\* the pool: it stays
C11_Witness ==
    /\ synclog.result = "err"
    /\ "w1" \in DOMAIN pool
    /\ now - pool["w1"].last_seen >= service_removal_grace_period

\* C12: an instance configured with metadata.static = true stays in the pool
\* over any sequence of syncs, also after a pull that held an openai-api record
\* of its name and later pulls that no longer name it.
C12_StaticNeverRemoved ==
    \A c \in StaticServices : MetaStatic(c.metadata) => c.name \in DOMAIN pool

\* the pull that the successful sync of this step applied
Applied(response) ==
    /\ synclog'.result = "ok"
    /\ \E i \in DOMAIN pulls : pulls[i] = response /\ pulls' = RemoveAt(pulls, i)

\* C27: a sync neither adds nor changes an instance on account of a record
\* whose metadata.type is not "openai-api": the instance named by such a record
\* is as before the sync (absent or unchanged), and every instance a sync adds
\* has type openai-api.
C27_OnlyOpenAiRecordsReachThePool ==
    [][ /\ \A response \in SeqToSet(pulls) : Applied(response) =>
              \A r \in response :
                 (\A q \in response : q.name = r.name
                                        => MetaType(q.metadata) # "openai-api")
                    => IF r.name \in DOMAIN pool
                       THEN r.name \in DOMAIN pool' /\ pool'[r.name] = pool[r.name]
                       ELSE r.name \notin DOMAIN pool'
        /\ \A n \in DOMAIN pool' \ DOMAIN pool :
              MetaType(pool'[n].metadata) = "openai-api" ]_vars

\* a sync has applied a pull that lists only a Babysitter record named w1, and
\* the pool has no w1
C27_Witness ==
    /\ synclog.result = "ok"
    /\ synclog.names = {"w1"}
    /\ registry = {RecW1Babysitter}
    /\ "w1" \notin DOMAIN pool

\* C28: a successful sync whose pull holds an openai-api record r of an
\* instance of the pool leaves the instance with r's host, port, metadata and
\* models, healthy as r.is_healthy says, last_seen = now, and its
\* request_count, error_count and weight as they were.
C28_SyncUpdatesExistingInstance ==
    [][ \A response \in SeqToSet(pulls) : Applied(response) =>
          \A r \in response :
             (MetaType(r.metadata) = "openai-api" /\ r.name \in DOMAIN pool)
                => /\ r.name \in DOMAIN pool'
                   /\ pool'[r.name].host = r.host
                   /\ pool'[r.name].port = r.port
                   /\ pool'[r.name].metadata = r.metadata
                   /\ pool'[r.name].models = MetaModels(r.metadata)
                   /\ pool'[r.name].healthy = r.is_healthy
                   /\ pool'[r.name].last_seen = now
                   /\ pool'[r.name].request_count = pool[r.name].request_count
                   /\ pool'[r.name].error_count = pool[r.name].error_count
                   /\ pool'[r.name].weight = pool[r.name].weight ]_vars

\* static-1 has served a request and failed a probe at time 0; the sync at time
\* 30 has applied the Registry's record of it: healthy again, the counts and the
\* weight of 2 kept
C28_Witness ==
    /\ synclog.result = "ok"
    /\ now = health_interval
    /\ pool["static-1"].metadata = RecStatic.metadata
    /\ pool["static-1"].models = <<"m2">>
    /\ pool["static-1"].healthy
    /\ pool["static-1"].last_seen = health_interval
    /\ pool["static-1"].last_check = 0
    /\ pool["static-1"].error_count = 1
    /\ pool["static-1"].request_count = 1
    /\ pool["static-1"].weight = 2

----------------------------------------------------------------------------
(* Properties of the proxy *)

InFlight == req.pc # "idle"

\* C13: a proxy request makes at most 3 upstream sends, and every send but the
\* last one it has made ended in a transport error.
C13_AtMostThreeSendsEachAfterError ==
    InFlight =>
        /\ Len(req.sends) <= 3
        /\ \A k \in 1..(Len(req.sends) - 1) : req.sends[k].outcome = "error"

\* a request that has sent three times, each send a transport error
C13_Witness ==
    /\ req.pc = "done"
    /\ Len(req.sends) = 3
    /\ \A k \in 1..3 : req.sends[k].outcome = "error"

\* C14: within one request an attempt goes to an instance no earlier attempt
\* went to, whenever the tier that chose had two or more healthy candidates;
\* sync rounds and health-check rounds may run in between.
C14_DistinctAttemptsUseDistinctInstances ==
    InFlight =>
        \A j, k \in DOMAIN req.sends :
            (j < k /\ Cardinality(req.sends[k].cands) >= 2)
                => req.sends[j].service # req.sends[k].service

\* C15: a send to X that ends in a transport error leaves the pool's X with
\* healthy = false and error_count one higher, and the request's next selection
\* does not choose X.
C15_FailedInstanceDemotedAndSkipped ==
    [][ /\ (req.pc = "send" /\ req'.pc # "send" /\ req'.last_error # req.last_error)
            => /\ ~pool'[req.service].healthy
               /\ pool'[req.service].error_count = pool[req.service].error_count + 1
        /\ (req.pc = "select" /\ req'.pc = "send" /\ req.sends # << >>)
            => req'.service # req.sends[Len(req.sends)].service ]_vars

\* C16 as claimed: when the worker answers with a status, the proxy returns
\* that status, the request is over, and the instance's healthy flag and
\* error_count are as before.
C16_AnswerPassedThrough ==
    [][ (req.pc = "send" /\ req'.answer # NoAnswer)
            => /\ req'.pc = "done"
               /\ req'.status = req'.answer.status
               /\ pool'[req.service].healthy = pool[req.service].healthy
               /\ pool'[req.service].error_count = pool[req.service].error_count ]_vars

\* C16 as the code has it: the status returned is the worker's, or 502 when
\* the body of the answer cannot be read; in both cases the request is over and
\* the instance's healthy flag and error_count are as before.
C16_AnswerPassedThroughOr502 ==
    [][ (req.pc = "send" /\ req'.answer # NoAnswer)
            => /\ req'.pc = "done"
               /\ req'.status = IF req'.answer.kind = "unreadable"
                                 THEN 502 ELSE req'.answer.status
               /\ Len(req'.sends) = Len(req.sends)
               /\ pool'[req.service].healthy = pool[req.service].healthy
               /\ pool'[req.service].error_count = pool[req.service].error_count ]_vars

\* the worker has answered 500 and the client got 500, after one send
C16_Witness ==
    /\ req.pc = "done"
    /\ req.answer = [kind |-> "status", status |-> 500]
    /\ req.status = 500
    /\ Len(req.sends) = 1

\* C17: a request all of whose attempts ended in transport errors is answered
\* with the mapped status of its last failed attempt (504, 503, 502), also when
\* it made fewer than 3 attempts.
C17_AllFailedGivesMappedStatus ==
    (/\ req.pc = "done"
     /\ req.sends # << >>
     /\ \A k \in DOMAIN req.sends : req.sends[k].outcome = "error")
        => req.status = MappedStatus(req.last_error)

\* C18: a request whose message_size is known has the size tier asked first,
\* for "static" above the threshold and "paged" otherwise; a request whose
\* message_size is not known does not have the size tier asked.
C18_SizeTierIffSizeKnown ==
    (InFlight /\ req.tiers # << >>) =>
        LET rf == RoutingFields(req.request)
            known == rf # None /\ rf[1].message_size # None
        IN
        IF known /\ req.request.method = "POST"
        THEN /\ req.tiers[1] = "size"
             /\ req.cache_type =
                    IF rf[1].message_size[1] > 51200 THEN "static" ELSE "paged"
        ELSE ~Contains(req.tiers, "size")

\* C19: the tiers are asked in the order size, session, round-robin, and a
\* selection that yields no instance (503) has asked the round-robin tier last.
C19_FallThroughToRoundRobin ==
    (InFlight /\ req.tiers # << >>) =>
        /\ \A j, k \in DOMAIN req.tiers :
              j < k => <<req.tiers[j], req.tiers[k]>> \in
                          {<<"size", "session">>, <<"size", "wrr">>, <<"session", "wrr">>}
        /\ (req.pc = "done" /\ req.service = NoService)
              => req.tiers[Len(req.tiers)] = "wrr"

\* the healthy instances of the pool whose models list contains m
Serving(m) ==
    {n \in DOMAIN pool : pool[n].healthy /\ Contains(pool[n].models, m)}

\* C21: the selection made for a request that names model m chooses only an
\* instance that is healthy and lists m among its models, whichever tier
\* chooses; when the pool has no such instance the selection yields nothing and
\* the request is answered 503.
C21_SelectionServesTheModel ==
    [][ (req.pc = "select" /\ req'.pc # "select" /\ ModelId(req.request) # None)
            => LET m == ModelId(req.request)[1] IN
               /\ req'.pc = "send" => req'.service \in Serving(m)
               /\ Serving(m) = {} => /\ req'.pc = "done"
                                     /\ req'.service = NoService
                                     /\ req'.status = 503 ]_vars

\* a request for m2 is sent to C, the only instance that serves m2, while A and
\* B are healthy
C21_Witness ==
    /\ req.pc = "send"
    /\ ModelId(req.request) = Some("m2")
    /\ req.service = "C"
    /\ pool["A"].healthy /\ pool["B"].healthy
    /\ "wrr" \in {req.tiers[k] : k \in DOMAIN req.tiers}

SuccessfulSends(n) ==
    IF InFlight
    THEN {k \in DOMAIN req.sends :
            req.sends[k].service = n /\ req.sends[k].outcome = "answer"}
    ELSE {}

\* C23: an instance's request_count is the number of successful sends to it:
\* a selection alone and a send that ends in a transport error do not count.
C23_RequestCountIsSuccessfulSends ==
    \A n \in DOMAIN pool : pool[n].request_count = Cardinality(SuccessfulSends(n))

\* C24: a request that is not a POST, or whose body does not parse, is served
\* without routing hints: no size tier is asked and no model filters the
\* candidates; it is not rejected, and without an X-Forwarded-For address it
\* is sent to the weighted round-robin choice among all healthy instances (503
\* only when there is none).
C24_NoHintsWithoutParseablePost ==
    [][ (/\ req.pc = "select" /\ req'.pc # "select"
         /\ (req.request.method # "POST" \/ ~req.request.body.json))
            => LET healthy_services == HealthyServices(pool, None) IN
               /\ ~Contains(req'.tiers, "size")
               /\ req'.cache_type = "<none>"
               /\ req'.status \in {0, 503}
               /\ req.request.xff = None =>
                    /\ req'.tiers = <<"wrr">>
                    /\ IF healthy_services = << >>
                       THEN req'.pc = "done" /\ req'.status = 503
                       ELSE /\ req'.pc = "send"
                            /\ req'.service =
                                 WeightedPick(pool, healthy_services, current_index) ]_vars

\* a POST whose body names m2 but does not parse is sent to A, which does not
\* serve m2, by the round-robin tier
C24_Witness ==
    /\ req.pc = "send"
    /\ req.request.method = "POST"
    /\ ~req.request.body.json
    /\ req.request.body.model = Some("m2")
    /\ req.service = "A"
    /\ req.tiers = <<"wrr">>

\* the session id the claim gives for a key found in the body, the address
\* at hand (None without one) and the model
ClaimedSessionId(key, ip, user_agent, model_id) ==
    LET prefix == IF model_id = None THEN "default" ELSE model_id[1]
        ua == IF user_agent = None THEN "" ELSE user_agent[1]
    IN
    IF key # None THEN Some(<<prefix, "prompt_cache", key[1]>>)
    ELSE IF ip # None THEN Some(<<prefix, "ip", IpHash(ip[1], ua)>>)
    ELSE None

\* the address of the request: the first X-Forwarded-For entry when the
\* header has one, the remote address otherwise
ClaimedIp(headers, remote_addr) ==
    IF headers.xff # None /\ Head(headers.xff[1]).text # ""
    THEN Some(Head(headers.xff[1]).text)
    ELSE IF headers.xff = None /\ remote_addr # None /\ remote_addr # Some("")
    THEN remote_addr
    ELSE None

\* the request carries an empty X-Forwarded-For and a remote address
EmptyForwardedFor(headers, remote_addr) ==
    /\ headers.xff # None
    /\ Head(headers.xff[1]).text = ""
    /\ remote_addr \notin {None, Some("")}

----------------------------------------------------------------------------
(* Properties of the Babysitter *)

\* monitor_service has returned: the child is gone, its status could not be
\* polled, or it was never spawned
Crashed == babysitter.pc = "monitor" /\ babysitter'.pc # "monitor"

\* C29: restart_count never exceeds max_restarts; a crash that finds
\* restart_count < max_restarts adds exactly one to it and start_service runs
\* again after the restart delay; a crash that finds restart_count >=
\* max_restarts terminates the manager, which never starts the service
\* again, so the service is started at most max_restarts + 1 times
C29_RestartsBounded ==
    [][ /\ babysitter'.restart_count <= babysitter'.max_restarts
        /\ babysitter.pc # "main" =>
              /\ babysitter'.starts <= babysitter.max_restarts + 1
              /\ babysitter'.spawns <= babysitter.max_restarts + 1
              /\ babysitter'.max_restarts = babysitter.max_restarts
        /\ Crashed =>
              IF babysitter.restart_count < babysitter.max_restarts
              THEN /\ babysitter'.restart_count = babysitter.restart_count + 1
                   /\ babysitter'.pc = "sleep"
              ELSE /\ babysitter'.restart_count = babysitter.restart_count
                   /\ babysitter'.pc = "terminated"
        /\ ~Crashed => babysitter'.restart_count = babysitter.restart_count
        /\ babysitter.pc = "sleep" =>
              /\ babysitter'.pc \in {"sleep", "start"}
              /\ babysitter'.starts = babysitter.starts
        /\ babysitter.pc = "terminated" =>
              /\ babysitter'.pc = "terminated"
              /\ babysitter'.starts = babysitter.starts
              /\ babysitter'.spawns = babysitter.spawns
      ]_vars

\* a child that crashed every time: spawned max_restarts + 1 times, then the
\* manager gave up
C29_Witness ==
    /\ babysitter.pc = "terminated"
    /\ babysitter.max_restarts >= 2
    /\ babysitter.restart_count = babysitter.max_restarts
    /\ babysitter.spawns = babysitter.max_restarts + 1

\* the probe was answered with a 2xx or a 404
Answered(probe) ==
    /\ probe.connect
    /\ \E k \in DOMAIN probe.answers :
          probe.answers[k] = 404 \/ (probe.answers[k] >= 200 /\ probe.answers[k] < 300)

\* C30: after a spawn the readiness detection ends, exactly when a probe is
\* answered 2xx or 404 or more than 30 s have passed, and then service_port
\* is the target port; service_port is none as long as no detection has
\* completed, and once set it is never none again
C30_DetectionEndsAndSetsPort ==
    /\ [][ /\ \A probe \in ReadyProbes, duration \in CheckDurations :
                DetectStep(probe, duration) =>
                    /\ babysitter'.pc # "detect" <=>
                          (Answered(probe) \/ babysitter.elapsed > max_wait)
                    /\ babysitter'.pc # "detect" =>
                          babysitter'.service_port = Some(service_target_port)
           /\ (babysitter.pc = "detect" /\ babysitter'.pc # "detect") =>
                 babysitter'.service_port = Some(service_target_port)
           /\ babysitter.service_port # None =>
                 babysitter'.service_port = babysitter.service_port
           /\ babysitter'.detections = 0 => babysitter'.service_port = None
         ]_vars
    /\ (babysitter.pc = "detect") ~> (babysitter.pc # "detect")

\* the first detection ran into the 30 s limit and set the port; it is still
\* set after a crash, a restart, a failed spawn and exhausted restarts
C30_Witness ==
    /\ babysitter.pc = "terminated"
    /\ babysitter.process = None
    /\ babysitter.restart_count >= 1
    /\ babysitter.detections = 1
    /\ babysitter.elapsed > max_wait
    /\ babysitter.service_port = Some(service_target_port)

----------------------------------------------------------------------------
(* Properties of the Babysitter: one child *)

\* the children the operating system still runs
Alive == {pid \in DOMAIN babysitter.children : babysitter.children[pid] = "running"}

\* C31: at most one supervised child is alive at any time, and it is the one
\* the state holds; whenever start_service spawns, every child spawned before
\* has exited or has been killed
C31_AtMostOneChild ==
    [][ /\ Cardinality({pid \in DOMAIN babysitter'.children :
                           babysitter'.children[pid] = "running"}) <= 1
        /\ \A pid \in DOMAIN babysitter'.children :
              babysitter'.children[pid] = "running" => babysitter'.process = Some(pid)
        /\ Len(babysitter'.children) > Len(babysitter.children) =>
              \A pid \in DOMAIN babysitter.children :
                  babysitter'.children[pid] # "running"
      ]_vars

\* a restart after a failed poll found the first child still running, killed
\* it and spawned the second
C31_Witness ==
    /\ Len(babysitter.children) >= 2
    /\ babysitter.children[1] = "killed"
    /\ babysitter.children[2] = "running"

----------------------------------------------------------------------------
(* Properties of the Babysitter: registration *)

\* the steps of the worker's registration: posted only with a port and a
\* non-empty list; an empty list goes to the 2 s retry and registers nothing
ManagedSteps ==
    /\ RegisterManaged =>
          /\ babysitter.service_port # None
          /\ client.port = babysitter.service_port
          /\ client.models # << >>
          /\ client'.posted = [op |-> "register", name |-> server_name]
    /\ (FetchModels /\ client.worker_models = << >>) =>
          /\ client'.managed = "retry"
          /\ services' = services
    /\ (client.managed = "retry" /\ client'.managed # "retry") =>
          /\ client'.managed \in {"wait_port", "aborted"}
          /\ services' = services
    /\ (server_name \in DOMAIN services' /\ server_name \notin DOMAIN services) =>
          RegisterManaged

\* the statement as made: the worker's record always carries a non-empty
\* metadata.models and metadata.type = openai-api
C32_ServerRecordAsStated ==
    [][ /\ ManagedSteps
        /\ server_name \in DOMAIN services' =>
              /\ services'[server_name].port = service_target_port
              /\ MetaType(services'[server_name].metadata) = "openai-api"
              /\ MetaModels(services'[server_name].metadata) # << >>
      ]_vars

\* C32: the worker's record is posted only after service_port is set and a
\* non-empty model list was fetched; an empty list leads to the retry after
\* 2 s and never to a registration; the registered record has the worker's
\* port, and metadata.type = openai-api and a non-empty metadata.models unless
\* the metadata of the config file carries that key, which then replaces it
C32_ServerRecordAfterReadiness ==
    [][ /\ ManagedSteps
        /\ server_name \in DOMAIN services' =>
              LET r == services'[server_name] IN
              /\ r.port = service_target_port
              /\ "type" \notin DOMAIN client'.config_metadata =>
                    MetaType(r.metadata) = "openai-api"
              /\ "models" \notin DOMAIN client'.config_metadata =>
                    MetaModels(r.metadata) # << >>
              /\ \A k \in DOMAIN client'.config_metadata :
                    r.metadata[k] = client'.config_metadata[k]
      ]_vars

\* the worker's record is in the Registry with the ids the worker served and
\* the metadata of the config file next to them
C32_Witness ==
    /\ server_name \in DOMAIN services
    /\ client.managed = "done"
    /\ client.config_metadata = [cache_type |-> "paged"]
    /\ services[server_name].metadata.type = "openai-api"
    /\ services[server_name].metadata.models = <<"m1">>
    /\ services[server_name].metadata.cache_type = "paged"

\* C33: every tick of the heartbeat loop posts a heartbeat for the Babysitter's
\* own name, and one for the worker's name only if the worker's record has
\* been registered with the Registry
C33_ServerHeartbeatOnlyRegistered ==
    [][ /\ HeartbeatOwn =>
              client'.posted = [op |-> "heartbeat", name |-> service_name]
        /\ (HeartbeatServer
            /\ client'.posted = [op |-> "heartbeat", name |-> server_name]) =>
              client.registered
      ]_vars

\* the Babysitter runs, its worker is ready and serves a non-empty model list,
\* and the Registry is reachable
Settled ==
    /\ client.main = "running"
    /\ client.up
    /\ client.worker_models # << >>
    /\ babysitter.service_port # None

\* C34: if from some point on the worker is ready and serves a non-empty model
\* list and the Registry is reachable, the Registry eventually holds both the
\* Babysitter's own record and the worker's record
C34_BothRecordsEventually ==
    (<>[]Settled) =>
        <>(service_name \in DOMAIN services /\ server_name \in DOMAIN services)

\* C35: once the shutdown has completed no supervised child is left running,
\* and the registry client, the process manager and the HTTP server are
\* cancelled
C35_ShutdownLeavesNoChild ==
    client.main = "stopped" =>
        /\ Alive = {}
        /\ client.run = "aborted"
        /\ client.server = "aborted"
        /\ babysitter.pc = "aborted"

----------------------------------------------------------------------------
(* Properties of the Registry: the health probe on demand *)

\* C36: ServiceHealth(name) probes http://host:(port+1)/health when the
\* record's metadata.type is openai-api and url + /health otherwise, sets
\* health_status to the outcome (healthy on 2xx, unhealthy otherwise), sets
\* last_heartbeat to the time of the answer iff the outcome is healthy, and
\* changes nothing else in the record or in the directory
C36_ServiceHealthEffect ==
    [][\A o \in ProbeOutcomes :
          ServiceHealthProbe(o) =>
             LET before == services[sh.name]
                 after == services'[sh.name]
             IN  /\ resp'.url = IF MetaType(before.metadata) = "openai-api"
                                THEN Url(before.host, before.port + 1)
                                ELSE before.url
                 /\ after.health_status = (IF o = "2xx" THEN "healthy" ELSE "unhealthy")
                 /\ resp'.health_status = after.health_status
                 /\ after.last_heartbeat = (IF o = "2xx" THEN now
                                                         ELSE before.last_heartbeat)
                 /\ [after EXCEPT !.health_status = before.health_status,
                                  !.last_heartbeat = before.last_heartbeat] = before
                 /\ DOMAIN services' = DOMAIN services
                 /\ \A n \in DOMAIN services \ {sh.name} : services'[n] = services[n]
      ]_vars

\* an openai-api record registered at h1:9000 was probed on demand at h1:9001,
\* answered 2xx some time after its registration and had its heartbeat advanced
C36_Witness ==
    /\ resp.op = "health"
    /\ resp.code = 200
    /\ resp.url = Url("h1", 9001)
    /\ resp.health_status = "healthy"
    /\ services[resp.name].url = Url("h1", 9000)
    /\ services[resp.name].last_heartbeat = now
    /\ services[resp.name].timestamp < now

\* C39: a Heartbeat without status never has to wait for a health probe in
\* flight, even while a Register, Update or Unregister is queued for the write
\* guard: no task holds the directory's guard across a network probe
C39_HeartbeatNeverWaitsForProbe ==
    sh.pc = "probe" =>
        \A i \in DOMAIN waiting :
            ~(waiting[i].op = "heartbeat" /\ waiting[i].status = NoStatus)

\* C40: a Heartbeat with status is atomic with respect to the other writers of
\* the name: when it answers success, the record whose last_heartbeat it
\* advanced is still in the directory and is the one whose status it replaced
C40_HeartbeatWithStatusAtomic ==
    [][ (HeartbeatStatus /\ resp'.code = 200) =>
            /\ Present(hb.name)
            /\ hb.name \in DOMAIN services'
            /\ services'[hb.name].status = hb.status
            /\ services'[hb.name].last_heartbeat >= hb.now
            /\ services'[hb.name].timestamp <= hb.now
      ]_vars

----------------------------------------------------------------------------
(* Properties of the Router: the instance's addresses *)

\* C37: after any sequence of static loads and syncs, every instance of the
\* pool has url = http://host:port and babysitter_url = http://host:(port+1)
C37_UrlsDerivedFromHostAndPort ==
    \A n \in DOMAIN pool :
        /\ pool[n].url = Url(pool[n].host, pool[n].port)
        /\ pool[n].babysitter_url = Url(pool[n].host, pool[n].port + 1)

\* C38: the sync loop awaits the work of one tick before it sleeps: a round is
\* started only when no earlier round is in flight, and the pull that is
\* applied is the oldest (the only) one in flight
C38_OneSyncRoundInFlight ==
    [][ /\ \A ok \in BOOLEAN : SyncFetch(ok) => pulls = << >>
        /\ \A i \in DOMAIN pulls : SyncApply(i) => (i = 1 /\ Len(pulls) = 1)
      ]_vars

----------------------------------------------------------------------------
(* Properties of the weighted round-robin *)

\* no selection has taken a counter value without having made its choice
Quiet == \A c \in Callers : callers[c].pc # "pick"

\* C20: against a fixed candidate set of total weight W > 0, once N = k*W
\* selections have been made each candidate has been chosen k*weight times;
\* the selections take consecutive counter values, one each, however the
\* concurrent calls interleave; with W = 0 the choice for counter value i is
\* candidates[i mod n]
C20_WeightedRoundRobinFair ==
    LET cands == HealthyServices(pool, None)
        W == TotalWeight(pool, cands)
        N == Len(took)
    IN
    /\ \A j \in 1..N : took[j].index = took[1].index + (j - 1)
    /\ N > 0 => current_index = took[N].index + 1
    /\ (W > 0 /\ Quiet /\ N % W = 0) =>
          \A j \in 1..Len(cands) :
              pool[cands[j]].request_count = (N \div W) * pool[cands[j]].weight
    /\ W = 0 =>
          \A j \in 1..N : took[j].service = cands[(took[j].index % Len(cands)) + 1]

\* two rounds over weights 1, 2, 0 were made, starting from counter value 1
C20_Witness ==
    /\ pool["A"].weight = 1 /\ pool["B"].weight = 2 /\ pool["C"].weight = 0
    /\ Len(took) = 6
    /\ took[1].index = 1
    /\ Quiet
    /\ pool["A"].request_count = 2 /\ pool["B"].request_count = 4
    /\ \E j \in 1..5 : took[j].service = "B" /\ took[j + 1].service = "B"

====
